---- MODULE Spec2Model ----
(***************************************************************************)
(* Verification model of the guardian-node protocol engine.                *)
(*                                                                         *)
(* Part 1: the round mailbox (communication/ecdsa.rs, communication/       *)
(* nats.rs): one party collecting the messages of one round from its       *)
(* subscription, with peers publishing in any order and the untrusted bus  *)
(* able to deliver forged, duplicated or malformed payloads.               *)
(*                                                                         *)
(* Part 2: the session workers (signing/ecdsa/session.rs, signing/eddsa,   *)
(* keygen/ecdsa/client.rs) as round sequences run by every party, and the  *)
(* command handlers that write Paillier keys into a keyshare               *)
(* (recovery/commands.rs, recovery/target_role.rs).                        *)
(*                                                                         *)
(* Part 3: the handlers of a new signing request (the three                *)
(* handle_new_session_message of signing/) up to the spawn of the worker.  *)
(*                                                                         *)
(* Part 4: share regeneration (recovery/): the orchestrator, the helpers'  *)
(* exchange of contributions, the target's validation and save, the        *)
(* commands sent to the surviving nodes, and the keyshare files on disk    *)
(* (storage/).                                                             *)
(***************************************************************************)
EXTENDS Integers, Sequences, FiniteSets, TLC

\* ------------------------------------------------------------------ bounds
\* Largest party_count a join response declares in the model.
MaxParties == 3
\* Number of payloads the untrusted bus may add to one subscription.
MaxInject == 2

\* ------------------------------------------------------------- Option<T>
None == <<>>
Some(x) == <<x>>
is_some(o) == Len(o) > 0
unwrap(o) == o[1]

\* ------------------------------------------------------------ round mailbox
VARIABLES
    party_count,   \* collect_messages: party_count argument
    receiver_id,   \* collect_messages: receiver_id argument (Option<usize>)
    sub,           \* nats::Subscription: payloads delivered, oldest first
    map,           \* BTreeMap<usize, T> of collect_messages, entries in key order
    coll,          \* position of the collecting call
    coll_err,      \* name of the error the call returned
    values,        \* Option<Vec<T>>: the vector the call returned
    sent,          \* parties of the session whose round message was published
    injected,      \* payloads added by the untrusted bus so far
    last_taken,    \* Option: sender id of the payload the call took last
    disorder,      \* a payload was taken after one with a larger sender id
    session        \* the worker that made the call

collect_vars == <<party_count, receiver_id, sub, map, coll, coll_err, values,
                  sent, injected, last_taken, disorder, session>>

\* ------------------------------------------------------- session workers
VARIABLES
    protocol,      \* which worker the parties run
    started,       \* the hub published the session's start message
    party,         \* per party: position, round, rounds published and collected,
                   \* results of the phase 5 / 6 sum checks, blames run, signature
    result,        \* payloads published on a result subject, command responses
    commit_e,      \* keygen: modulus of the Paillier key in each party's commit
    keyshare       \* per node: Option<paillier_key_vec> of the stored keyshare

session_vars == <<protocol, started, party, result, commit_e, keyshare>>

\* --------------------------------------------------- signing request handlers
VARIABLES
    metadata,      \* KeyMetadataStore: timestamp, access, new_identity_key
    inbox,         \* Option: the request delivered to the node, not yet handled
    spawned        \* signing workers spawned, per kind of worker

auth_vars == <<metadata, inbox, spawned>>

\* ---------------------------------------------------------- share regeneration
VARIABLES
    rec,           \* the recovery under study: kind, recovery_index, party_nodes, ...
    files,         \* per node: the keyshare files of the key, by storage path
    key_info,      \* per node: KeyInfoStore, the node holding the recovered share
    orch,          \* position of orchestrate
    helper,        \* per helper: position, retained part, error
    p2p,           \* messages published on ExchangePartShares.<to>
    packages,      \* messages published on DeliverRecoveryPackage
    target,        \* the new node: position, validation result it returned
    outbox,        \* commands published to the nodes, not handled yet
    loaded         \* Option: what SignSession::new loaded on the new node

recovery_vars == <<rec, files, key_info, orch, helper, p2p, packages, target,
                   outbox, loaded>>

\* ------------------------------------------------- keys of full-size factors
VARIABLES
    offer,         \* the EncryptionKeys a node was handed, and the path they came by
    offer_pc,      \* position of the handler of the offer
    held           \* Option<Vec<EncryptionKey>>: the keys the node goes on with

guard_vars == <<offer, offer_pc, held>>

\* ------------------------------------------------- writers of one keyshare file
VARIABLES
    keyfile,       \* Option: content of the file at the keyshare's path
    writer         \* per worker: position in add_keyfile_with_email, its WriteOpts

store_vars == <<keyfile, writer>>

\* -------------------------------------------------------- EdDSA key generation
VARIABLES
    kg_poly,       \* per party: coefficients of the polynomial it drew (u_i first)
    kg_pub,        \* per round and party: Option of the message the party published
    kg_party       \* per party: position in keygen_session_inner, what it holds

eddsa_vars == <<kg_poly, kg_pub, kg_party>>

\* ------------------------------------------------- phase 0 of ECDSA signing
VARIABLES
    p0_holder,     \* per id_in_session: keyshare.party_index of that signer
    p0_net,        \* Phase0Identity messages published on the phase 0 subject
    p0_signer      \* per id_in_session: position in phase 0, map, signers

phase0_vars == <<p0_holder, p0_net, p0_signer>>

\* ------------------------------------------------------------ the dispatcher
VARIABLES
    loop,            \* position of the main thread in message_loop
    NATS_CONNECTED,  \* the static flag the connection's callbacks set
    server_up,       \* the NATS server can be reached
    subscribed,      \* the server holds the subscription of `subscription`
    pending,         \* messages delivered to `subscription`, oldest first
    pub_count,       \* messages published to the node so far
    lost,            \* subjects published while subscribed that were not delivered
    handled,         \* how handle_message routed each message it was given
    threads,         \* the threads the handlers spawned: kind and position
    retry,           \* get_nats_connection: retry_count, wait_time, attempts, sleeps
    outages          \* times the server went away

dispatch_vars == <<loop, NATS_CONNECTED, server_up, subscribed, pending, pub_count, lost, handled, threads, retry, outages>>

\* ------------------------------------------------------------------- eject
VARIABLES
    ej_node,       \* the node: kind of the key, its share index, its keyshare files
    ej_response    \* Option: the command handled and the response to it

eject_vars == <<ej_node, ej_response>>

\* ------------------------------------------------------- keyshare formats
VARIABLES
    kf_file,       \* the content of a keyshare file written by some version
    kf_loaded      \* Option: the key type asked for and what the load returned

keyfmt_vars == <<kf_file, kf_loaded>>

\* ------------------------------------------- signing requests of several keys
VARIABLES
    rp_store,      \* metadata of one e-mail: timestamp per key_id, access key
    rp_created,    \* (key_id, message, timestamp) of the requests the client made
    rp_inbox,      \* Option: the request delivered to the node, not yet handled
    rp_spawned     \* (key_id, message) of the signing workers spawned

replay_vars == <<rp_store, rp_created, rp_inbox, rp_spawned>>

\* ------------------------------------------------ joining an ECDSA keygen
VARIABLES
    kj_orch,       \* orchestrate: position, parties accepted so far
    kj_join_sub,   \* join requests delivered to the orchestrator, oldest first
    kj_party,      \* per node: position in keygen_session, party_num it was given
    kj_start,      \* the start message was published
    kj_round1      \* round 1 messages published: sender, parties it reached

join_vars == <<kj_orch, kj_join_sub, kj_party, kj_start, kj_round1>>

\* ------------------------------------------------- waits of the orchestrators
VARIABLES
    w_cfg,         \* the run: which orchestrator, how far each party goes, the target
    w_orch,        \* orchestrate: position, join messages and results taken
    w_party,       \* per party: position
    w_subs         \* messages pending on join_sub and on result_sub / package_sub

wait_vars == <<w_cfg, w_orch, w_party, w_subs>>

\* ------------------------------------------------ key info after a keygen
VARIABLES
    ki_orch,       \* orchestrate after the results: position, next node, own node
    ki_files,      \* per node: Option, the key info file of the key
    ki_pending     \* nodes an UpdateKeyInfoCommand was published to, not handled yet

keyinfo_vars == <<ki_orch, ki_files, ki_pending>>

vars == <<collect_vars, session_vars, auth_vars, recovery_vars, guard_vars, store_vars, eddsa_vars, phase0_vars, dispatch_vars, eject_vars, keyfmt_vars, replay_vars, join_vars, wait_vars, keyinfo_vars>>

\* A part of the node that is not running in the scenario under study.
CollectIdle ==
    /\ party_count = 0
    /\ receiver_id = None
    /\ sub = <<>>
    /\ map = <<>>
    /\ coll = "off"
    /\ coll_err = ""
    /\ values = None
    /\ sent = {}
    /\ injected = 0
    /\ last_taken = None
    /\ disorder = FALSE
    /\ session = "off"

SessionIdle ==
    /\ protocol = "none"
    /\ started = FALSE
    /\ party = <<>>
    /\ result = {}
    /\ commit_e = <<>>
    /\ keyshare = <<>>

AuthIdle ==
    /\ metadata = <<>>
    /\ inbox = None
    /\ spawned = [k \in {"ecdsa", "eddsa", "sr25519"} |-> 0]

RecoveryIdle ==
    /\ rec = <<>>
    /\ files = <<>>
    /\ key_info = <<>>
    /\ orch = "off"
    /\ helper = <<>>
    /\ p2p = {}
    /\ packages = {}
    /\ target = <<>>
    /\ outbox = {}
    /\ loaded = None

GuardIdle ==
    /\ offer = <<>>
    /\ offer_pc = "off"
    /\ held = None

StoreIdle ==
    /\ keyfile = None
    /\ writer = <<>>

KeygenIdle ==
    /\ kg_poly = <<>>
    /\ kg_pub = <<>>
    /\ kg_party = <<>>

Phase0Idle ==
    /\ p0_holder = <<>>
    /\ p0_net = {}
    /\ p0_signer = <<>>

DispatchIdle ==
    /\ loop = "idle"
    /\ NATS_CONNECTED = FALSE
    /\ server_up = FALSE
    /\ subscribed = FALSE
    /\ pending = <<>>
    /\ pub_count = 0
    /\ lost = {}
    /\ handled = <<>>
    /\ threads = <<>>
    /\ retry = <<>>
    /\ outages = 0

EjectIdle ==
    /\ ej_node = <<>>
    /\ ej_response = <<>>
KeyfmtIdle ==
    /\ kf_file = <<>>
    /\ kf_loaded = <<>>
ReplayIdle ==
    /\ rp_store = <<>>
    /\ rp_created = {}
    /\ rp_inbox = <<>>
    /\ rp_spawned = {}
JoinIdle ==
    /\ kj_orch = <<>>
    /\ kj_join_sub = <<>>
    /\ kj_party = <<>>
    /\ kj_start = FALSE
    /\ kj_round1 = {}
WaitIdle ==
    /\ w_cfg = <<>>
    /\ w_orch = <<>>
    /\ w_party = <<>>
    /\ w_subs = <<>>
KeyInfoIdle ==
    /\ ki_orch = <<>>
    /\ ki_files = <<>>
    /\ ki_pending = {}

\* Sender ids a payload on the wire can carry: the session's ids and one
\* id outside every session of the model.
WireIds == 0..MaxParties

\* The content party s puts in its round message.
Payload(s) == 100 + s

\* BroadcastMessage<T> / KeyGenMessage / PhaseN*: {sender_id, message}.
\* wellformed = FALSE stands for bytes serde_json cannot parse into T.
RoundMessage(s) == [sender_id |-> s, message |-> Payload(s), wellformed |-> TRUE]
ForgedMessages ==
    {[sender_id |-> s, message |-> 999, wellformed |-> TRUE] : s \in WireIds}
Garbage == [sender_id |-> 0, message |-> 0, wellformed |-> FALSE]
\* What the bus can add: a payload under any sender id (a forgery, or a
\* second message under a party's id), or unparseable bytes.
InjectedMessages == ForgedMessages \cup {Garbage}

\* HasSenderId::get_sender_id
get_sender_id(data) == data.sender_id

\* The sessions's party ids as the collector sees them: 0..party_count-1.
Parties(n) == 0..(n - 1)

\* ---- BTreeMap<usize, T> as the sequence of its entries in key order
map_keys(m) == {m[i].key : i \in 1..Len(m)}
contains_key(m, k) == k \in map_keys(m)

\* BTreeMap::insert of a key that is not present: first position whose
\* key is larger.
BTreeMap_insert_unsorted(m, k, v) == Append(m, [key |-> k, val |-> v])
BTreeMap_insert(m, k, v) ==
    LET pos == Cardinality({i \in 1..Len(m) : m[i].key < k})
    IN  SubSeq(m, 1, pos) \o <<[key |-> k, val |-> v]>> \o SubSeq(m, pos + 1, Len(m))

\* BTreeMap::remove
RECURSIVE BTreeMap_remove(_, _)
BTreeMap_remove(m, k) ==
    IF m = <<>> THEN <<>>
    ELSE IF Head(m).key = k THEN BTreeMap_remove(Tail(m), k)
    ELSE <<Head(m)>> \o BTreeMap_remove(Tail(m), k)

\* map.values().cloned().collect()
map_values(m) == [i \in 1..Len(m) |-> m[i].val]

\* let message_count = party_count - (if receiver_id.is_some() { 1 } else { 0 });
message_count(n, rid) == n - (IF is_some(rid) THEN 1 ELSE 0)

\* The tail of collect_messages: drop the receiver's own entry, return values.
RECURSIVE remove_receiver(_, _, _)
remove_receiver(m, n, rid) ==
    IF n = 0 THEN m
    ELSE LET i == n - 1
             rest == remove_receiver(m, n - 1, rid)
         IN  IF is_some(rid) /\ i = unwrap(rid) THEN BTreeMap_remove(rest, i) ELSE rest

finish(m, n, rid) == map_values(remove_receiver(m, n, rid))

CollectInit ==
    /\ party_count \in 1..MaxParties
    /\ receiver_id \in {None} \cup {Some(i) : i \in Parties(party_count)}
    /\ sub = <<>>
    /\ map = <<>>
    /\ coll = "idle"
    /\ coll_err = ""
    /\ values = None
    /\ sent = {}
    /\ injected = 0
    /\ last_taken = None
    /\ disorder = FALSE
    /\ session = "running"

\* A party of the session publishes its message of the round; in a P2P
\* round the collector's own party publishes to the other targets only.
Publish(s) ==
    /\ session = "running"
    /\ s \in Parties(party_count) \ sent
    /\ ~(is_some(receiver_id) /\ unwrap(receiver_id) = s)
    /\ sent' = sent \cup {s}
    /\ sub' = Append(sub, RoundMessage(s))
    /\ UNCHANGED <<party_count, receiver_id, map, coll, coll_err, values, injected, last_taken, disorder, session>>
    /\ UNCHANGED <<session_vars, auth_vars, recovery_vars, guard_vars, store_vars, eddsa_vars, phase0_vars, dispatch_vars, eject_vars, keyfmt_vars, replay_vars, join_vars, wait_vars, keyinfo_vars>>

\* The untrusted bus delivers a payload no party of the round published:
\* a forged or repeated sender id, or bytes that do not parse.
Inject(m) ==
    /\ session = "running"
    /\ injected < MaxInject
    /\ injected' = injected + 1
    /\ sub' = Append(sub, m)
    /\ UNCHANGED <<party_count, receiver_id, map, coll, coll_err, values, sent, last_taken, disorder, session>>
    /\ UNCHANGED <<session_vars, auth_vars, recovery_vars, guard_vars, store_vars, eddsa_vars, phase0_vars, dispatch_vars, eject_vars, keyfmt_vars, replay_vars, join_vars, wait_vars, keyinfo_vars>>

\* Entry of collect_messages: the loop is skipped when nothing is required.
collect_messages_enter ==
    /\ coll = "idle"
    /\ session = "running"
    /\ IF Len(map) < message_count(party_count, receiver_id)
       THEN /\ coll' = "collecting"
            /\ UNCHANGED <<values, session>>
       ELSE /\ coll' = "ok"
            /\ values' = Some(finish(map, party_count, receiver_id))
            /\ session' = "next_round"
    /\ UNCHANGED <<party_count, receiver_id, sub, map, coll_err, sent, injected, last_taken, disorder>>
    /\ UNCHANGED <<session_vars, auth_vars, recovery_vars, guard_vars, store_vars, eddsa_vars, phase0_vars, dispatch_vars, eject_vars, keyfmt_vars, replay_vars, join_vars, wait_vars, keyinfo_vars>>

\* The call returns Err: `?` in the caller ends the session worker.
bail(name) ==
    /\ coll' = "err"
    /\ coll_err' = name
    /\ session' = "terminated"
    /\ UNCHANGED <<map, values>>

\* get_next_item: sub.next_timeout(30 s) expired with nothing delivered.
get_next_item_blocks == FALSE
get_next_item_timeout ==
    /\ coll = "collecting"
    /\ sub = <<>>
    /\ bail("timeout")
    /\ UNCHANGED <<party_count, receiver_id, sub, sent, injected, last_taken, disorder>>
    /\ UNCHANGED <<session_vars, auth_vars, recovery_vars, guard_vars, store_vars, eddsa_vars, phase0_vars, dispatch_vars, eject_vars, keyfmt_vars, replay_vars, join_vars, wait_vars, keyinfo_vars>>

\* map.insert(sender_id, data), then the loop condition: when the map is
\* full the receiver's entry is dropped and the values are returned.
accept(m2) ==
    /\ map' = m2
    /\ coll_err' = coll_err
    /\ IF Len(m2) < message_count(party_count, receiver_id)
       THEN UNCHANGED <<coll, values, session>>
       ELSE /\ coll' = "ok"
            /\ values' = Some(finish(m2, party_count, receiver_id))
            /\ session' = "next_round"

\* What one iteration of the loop does with the payload `data`.
on_item_no_duplicate_check(data) ==
    LET sender_id == get_sender_id(data)
    IN  IF ~data.wellformed THEN bail("deserialize")
        ELSE IF is_some(receiver_id) /\ unwrap(receiver_id) = sender_id THEN bail("self")
        ELSE accept(BTreeMap_insert(BTreeMap_remove(map, sender_id), sender_id, data))

on_item_no_self_check(data) ==
    LET sender_id == get_sender_id(data)
    IN  IF ~data.wellformed THEN bail("deserialize")
        ELSE IF contains_key(map, sender_id) THEN bail("duplicate")
        ELSE accept(BTreeMap_insert(map, sender_id, data))

on_item(data) ==
    LET sender_id == get_sender_id(data)
    IN  IF ~data.wellformed THEN bail("deserialize")
        ELSE IF is_some(receiver_id) /\ unwrap(receiver_id) = sender_id THEN bail("self")
        ELSE IF contains_key(map, sender_id) THEN bail("duplicate")
        ELSE accept(BTreeMap_insert(map, sender_id, data))

\* One iteration of `while map.len() < message_count`: the next payload of
\* the subscription is taken and handled.
collect_messages_step ==
    /\ coll = "collecting"
    /\ sub # <<>>
    /\ sub' = Tail(sub)
    /\ last_taken' = Some(Head(sub).sender_id)
    /\ disorder' = (disorder \/ (is_some(last_taken) /\ unwrap(last_taken) > Head(sub).sender_id))
    /\ on_item(Head(sub))
    /\ UNCHANGED <<party_count, receiver_id, sent, injected>>
    /\ UNCHANGED <<session_vars, auth_vars, recovery_vars, guard_vars, store_vars, eddsa_vars, phase0_vars, dispatch_vars, eject_vars, keyfmt_vars, replay_vars, join_vars, wait_vars, keyinfo_vars>>

CollectNext ==
    \/ \E s \in Parties(MaxParties) : Publish(s)
    \/ \E m \in InjectedMessages : Inject(m)
    \/ collect_messages_enter
    \/ collect_messages_step
    \/ get_next_item_timeout

InitCollect == CollectInit /\ SessionIdle /\ AuthIdle /\ RecoveryIdle /\ GuardIdle /\ StoreIdle /\ KeygenIdle /\ Phase0Idle /\ DispatchIdle /\ EjectIdle /\ KeyfmtIdle /\ ReplayIdle /\ JoinIdle /\ WaitIdle /\ KeyInfoIdle

SpecCollect == InitCollect /\ [][CollectNext]_vars

\* ---------------------------------------------------------------- claims
\* Scheduling of one collecting call: the worker thread runs the call, and
\* next_timeout(30 s) returns whether or not a payload arrives.
SpecCollectFair ==
    /\ InitCollect
    /\ [][CollectNext]_vars
    /\ WF_vars(collect_messages_step)
    /\ WF_vars(get_next_item_timeout)

\* The step of the call that takes the head of the subscription.
TakesHead == coll = "collecting" /\ sub # <<>> /\ sub' = Tail(sub)

\* C1: when the collector takes a payload whose sender id is already in the
\* map of the round, the call fails with the duplicate error and the session
\* ends; the first message stays in the map and no vector is returned.
C1_DuplicateSenderIsFatal ==
    [][(TakesHead /\ Head(sub).wellformed /\ contains_key(map, Head(sub).sender_id))
        => (/\ coll' = "err"
            /\ coll_err' = "duplicate"
            /\ session' = "terminated"
            /\ map' = map
            /\ values' = None)]_vars

C1_Witness ==
    /\ coll = "err"
    /\ coll_err = "duplicate"
    /\ is_some(last_taken)
    /\ contains_key(map, unwrap(last_taken))

\* C2: a round that misses a peer's message ends in the timeout error and the
\* session ends; a returned vector always has the full required count; and a
\* collecting call always returns.
C2_MissingPeerIsFatal ==
    /\ [](coll = "ok" =>
            /\ is_some(values)
            /\ Len(unwrap(values)) = message_count(party_count, receiver_id))
    /\ [][(coll = "collecting" /\ sub = <<>> /\ coll' # coll)
            => (/\ coll' = "err"
                /\ coll_err' = "timeout"
                /\ session' = "terminated"
                /\ values' = None)]_vars
    /\ ((coll = "collecting") ~> (coll \in {"ok", "err"}))

C2_Witness ==
    /\ coll = "err"
    /\ coll_err = "timeout"
    /\ map # <<>>
    /\ Len(map) < message_count(party_count, receiver_id)

\* C3: in a P2P round, taking a payload whose sender id is the receiver's own
\* id fails the call with the from-ourselves error and the session ends.
C3_SelfAddressedIsFatal ==
    [][(TakesHead /\ Head(sub).wellformed /\ is_some(receiver_id)
            /\ Head(sub).sender_id = unwrap(receiver_id))
        => (/\ coll' = "err"
            /\ coll_err' = "self"
            /\ session' = "terminated"
            /\ map' = map
            /\ values' = None)]_vars

C3_Witness ==
    /\ coll = "err"
    /\ coll_err = "self"
    /\ is_some(receiver_id)
    /\ last_taken = receiver_id

\* NatsPeerMessenger::collect_messages: the messages of the returned
\* broadcasts, in the order returned.
NatsPeerMessenger_collect_messages(vec) == [i \in 1..Len(vec) |-> vec[i].message]

\* The senders whose message the round requires, ascending.
RECURSIVE Ascending(_)
Ascending(S) ==
    IF S = {} THEN <<>>
    ELSE LET lo == CHOOSE x \in S : \A y \in S : x <= y
         IN  <<lo>> \o Ascending(S \ {lo})

RequiredSenders ==
    Parties(party_count) \ (IF is_some(receiver_id) THEN {unwrap(receiver_id)} ELSE {})

\* C4: the returned vector is in ascending sender id order, and when it is
\* made of the round's own messages it is the same vector whatever the
\* arrival order was: the parties' messages by ascending sender id.
C4_ArrivalOrderIrrelevant ==
    (coll = "ok") =>
        LET vec == unwrap(values)
        IN  /\ \A i, j \in 1..Len(vec) : i < j => vec[i].sender_id < vec[j].sender_id
            /\ (\A i \in 1..Len(vec) :
                    vec[i].sender_id \in Parties(party_count)
                    /\ vec[i] = RoundMessage(vec[i].sender_id))
                => NatsPeerMessenger_collect_messages(vec)
                     = [i \in 1..Len(Ascending(RequiredSenders))
                          |-> Payload(Ascending(RequiredSenders)[i])]

C4_Witness ==
    /\ coll = "ok"
    /\ Len(unwrap(values)) >= 2
    /\ \A i \in 1..Len(unwrap(values)) :
          unwrap(values)[i] = RoundMessage(unwrap(values)[i].sender_id)
    /\ disorder

\* C33: every message in the map of collect_messages, and so every message
\* counted toward message_count, has a sender id among the party indices
\* 0..party_count-1 of the session.
C33_OnlySessionSendersCounted ==
    \A i \in 1..Len(map) : map[i].key \in Parties(party_count)

\* ==================================================================== Part 2
\* ------------------------------------------------------------- constants
\* signing/ecdsa/session.rs
THRESHOLD == 3
PHASES == 8
P2P_PHASE == 2
\* security.rs
MAX_PRIME == 65536

\* ------------------------------------------------------------------ bounds
\* party_count of a keygen or EdDSA session, and length of a key's
\* paillier_key_vec.
SessionParties == 3
\* Helper packages in one ReceiveRecoveryPackages command.
Helpers == 2

\* ------------------------------------------------------- Paillier moduli
\* get_primes: the sieve marks the multiples num*num, num*num+num, ... of
\* every prime num, so a number below MAX_PRIME stays prime exactly when no
\* num with num*num <= n divides it (num*num < MAX_PRIME only for num < 256).
get_primes == {n \in 2..(MAX_PRIME - 1) : \A num \in 2..255 : num * num > n \/ n % num # 0}

\* check_for_small_primes: TRUE for Ok(()), FALSE for Err.
check_for_small_primes(n) == ~(\E i \in get_primes : n % i = 0)

\* Moduli of the EncryptionKeys a message can carry: 65537 is prime,
\* 196611 = 3 * 65537.
WireModuli == {65537, 196611}
\* Paillier::keypair().keys(): a key generated on this node.
keypair == 65539
\* EncryptionKey::from(&BigInt::zero())
zero_key == 0

\* ------------------------------------------------------- round sequences
\* "sign": SignSession::sign; "keygen": KeygenClient::new inside
\* keygen_session; "eddsa_sign": keysign_session_inner.
Protocols == {"sign", "keygen", "eddsa_sign"}
\* "recovery": ReceiveRecoveryPackages; "update": UpdatePaillierKeysCommand
\* and UpdateSinglePaillierKeyCommand.
Commands == {"recovery", "update"}

\* Sender ids of the session: id_in_session, party_index - 1.
PartyIds(proto) == IF proto = "sign" THEN 0..(THRESHOLD - 1) ELSE 0..(SessionParties - 1)

\* sign: phases[0..PHASES); keygen: round1..round5; eddsa_sign: Commit,
\* Decommit, ShareSecret, VSS, Result of the ephemeral key, then LocalSig
\* and Result of the signature.
first_round(proto) == IF proto = "keygen" THEN 1 ELSE 0
last_round(proto) ==
    CASE proto = "sign" -> PHASES - 1
      [] proto = "keygen" -> 5
      [] proto = "eddsa_sign" -> 6
p2p_round(proto) ==
    CASE proto = "sign" -> P2P_PHASE
      [] proto = "keygen" -> 3
      [] proto = "eddsa_sign" -> 2

AllPartyIds == PartyIds("sign") \cup PartyIds("keygen")

InitParty ==
    [pc |-> "wait_start", phase |-> 0, published |-> {}, collected |-> {},
     R_dash_sum |-> "none", S_i_sum |-> "none", blamed |-> {}, sig |-> None]

SessionInit ==
    /\ protocol \in Protocols \cup Commands
    /\ started = FALSE
    /\ party = IF protocol \in Protocols THEN [p \in PartyIds(protocol) |-> InitParty]
               ELSE <<>>
    /\ result = {}
    /\ commit_e \in IF protocol = "keygen" THEN [PartyIds("keygen") -> WireModuli]
                    ELSE {<<>>}
    /\ keyshare \in
         CASE protocol = "keygen" -> {[p \in PartyIds("keygen") |-> None]}
           [] protocol = "recovery" -> {[n \in {0} |-> None]}
           [] protocol = "update" ->
                {[n \in {0} |-> None],
                 [n \in {0} |-> Some([i \in 1..SessionParties |-> 65537])]}
           [] OTHER -> {<<>>}

\* The collecting call of party p for round k returns Ok: every message the
\* round requires was published to p (in the P2P round, by the others).
round_collected_unconditional(p, k) == TRUE
round_collected(p, k) ==
    \A q \in DOMAIN party : (k = p2p_round(protocol) /\ q = p) \/ k \in party[q].published

update(p, r) == party' = [party EXCEPT ![p] = r]
\* the round's collection returned Ok
collect_ok(p) == [party[p] EXCEPT !.collected = @ \cup {party[p].phase}]
\* the worker goes on: it publishes its message of the next round and waits
\* in that round's collection
advance(r) == [r EXCEPT !.phase = @ + 1, !.published = @ \cup {r.phase + 1}]
\* the worker ends: "failed" for an Err through `?`, "panicked", "done"
stop(r, how) == [r EXCEPT !.pc = how]

\* The orchestrator publishes the start message of the session.
hub_start ==
    /\ protocol \in {"sign", "keygen"}
    /\ ~started
    /\ started' = TRUE
    /\ UNCHANGED <<protocol, party, result, commit_e, keyshare>>
    /\ UNCHANGED <<collect_vars, auth_vars, recovery_vars, guard_vars, store_vars, eddsa_vars, phase0_vars, dispatch_vars, eject_vars, keyfmt_vars, replay_vars, join_vars, wait_vars, keyinfo_vars>>

\* sign: wait_for_start_message, whose 10 s timeout is unwrapped, then the
\* publication of phase 0.  keygen: session_start.next(), then round 1.
\* eddsa_sign: the first round follows the join confirmation.
wait_for_start_message(p) ==
    /\ protocol \in Protocols
    /\ p \in DOMAIN party
    /\ party[p].pc = "wait_start"
    /\ \/ /\ started \/ protocol = "eddsa_sign"
          /\ update(p, [party[p] EXCEPT !.pc = "collect",
                                        !.phase = first_round(protocol),
                                        !.published = {first_round(protocol)}])
       \/ /\ protocol = "sign"
          /\ ~started
          /\ update(p, stop(party[p], "panicked"))
    /\ UNCHANGED <<protocol, started, result, commit_e, keyshare>>
    /\ UNCHANGED <<collect_vars, auth_vars, recovery_vars, guard_vars, store_vars, eddsa_vars, phase0_vars, dispatch_vars, eject_vars, keyfmt_vars, replay_vars, join_vars, wait_vars, keyinfo_vars>>

\* The collecting call of the round returns Err (timeout, duplicate,
\* self-addressed or unparseable payload) and `?` ends the worker.
collect_fails(p) ==
    /\ protocol \in Protocols
    /\ p \in DOMAIN party
    /\ party[p].pc = "collect"
    /\ update(p, stop(party[p], "failed"))
    /\ UNCHANGED <<protocol, started, result, commit_e, keyshare>>
    /\ UNCHANGED <<collect_vars, auth_vars, recovery_vars, guard_vars, store_vars, eddsa_vars, phase0_vars, dispatch_vars, eject_vars, keyfmt_vars, replay_vars, join_vars, wait_vars, keyinfo_vars>>

\* ---------------------------------------------------------- ECDSA signing
\* Each operator below is what the worker does from the return of a round's
\* collection up to its next blocking call: the rest of that phase function
\* and, when sign goes on, the publication that opens the next phase.

\* phase0, phase3: nothing is verified after the collection.
\* phase1 -> phase2: MessageB::b can fail before phase 2 publishes.
\* phase2: verify_proofs_get_alpha can fail, assert_eq! can panic.
\* phase4: SignKeys::phase4 can fail.
phase0_to_4(p, k, lib) ==
    CASE k \in {0, 3} -> update(p, advance(collect_ok(p)))
      [] k \in {1, 4} -> IF lib = "ok" THEN update(p, advance(collect_ok(p)))
                         ELSE update(p, stop(collect_ok(p), "failed"))
      [] k = 2 -> IF lib = "ok" THEN update(p, advance(collect_ok(p)))
                  ELSE IF lib = "err" THEN update(p, stop(collect_ok(p), "failed"))
                  ELSE update(p, stop(collect_ok(p), "panicked"))

\* phase5_blame: for id_in_session = 0 the index id_in_session - 1 is out
\* of range; otherwise the library's blame returns Ok or Err (both are
\* logged), or panics.
phase5_blame(p) == IF p = 0 THEN {"panic"} ELSE {"returns", "panic"}

\* phase5: phase5_verify_pdl, phase5_check_R_dash_sum, phase5_blame, and
\* Ok(Phase5Data) whatever the sum check said.
phase5(p, pdl_ok, sum_ok, blame) ==
    IF ~pdl_ok THEN update(p, stop(collect_ok(p), "failed"))
    ELSE IF sum_ok THEN update(p, advance([collect_ok(p) EXCEPT !.R_dash_sum = "ok"]))
    ELSE LET r == [collect_ok(p) EXCEPT !.R_dash_sum = "failed", !.blamed = @ \cup {5}]
         IN  IF blame = "panic" THEN update(p, stop(r, "panicked"))
             ELSE update(p, advance(r))

\* phase6_blame: the library calls return or panic.
phase6_blame(p) == {"returns", "panic"}

\* phase6: phase6_verify_proof, phase6_check_S_i_sum, phase6_blame, and
\* Ok(Phase6Data) whatever the sum check said.
phase6(p, proof_ok, sum_ok, blame) ==
    IF ~proof_ok THEN update(p, stop(collect_ok(p), "failed"))
    ELSE IF sum_ok THEN update(p, advance([collect_ok(p) EXCEPT !.S_i_sum = "ok"]))
    ELSE LET r == [collect_ok(p) EXCEPT !.S_i_sum = "failed", !.blamed = @ \cup {6}]
         IN  IF blame = "panic" THEN update(p, stop(r, "panicked"))
             ELSE update(p, advance(r))

\* check_sig: secp256k1 verification of (r, s) on the message under y_sum.
check_sig_skipped(sig) == TRUE
check_sig(sig) == sig = "valid"

\* send_result: the signature goes out on the session's result subject.
send_result(p, sig) == result' = result \cup {[by |-> p, kind |-> "signature", value |-> sig]}

\* phase7, then check_sig and send_result of sign.  output is what
\* output_signature returned: "err", or the signature it assembled.
phase7(p, output) ==
    IF output = "err"
    THEN /\ update(p, stop([collect_ok(p) EXCEPT !.blamed = @ \cup {7}], "panicked"))
         /\ UNCHANGED result
    ELSE LET r == [collect_ok(p) EXCEPT !.sig = Some(output)]
         IN  IF check_sig(output)
             THEN /\ update(p, stop(r, "done"))
                  /\ send_result(p, output)
             ELSE /\ update(p, stop(r, "failed"))
                  /\ UNCHANGED result

\* sign, from the return of the collection of phase k.
sign(p) ==
    /\ protocol = "sign"
    /\ p \in DOMAIN party
    /\ party[p].pc = "collect"
    /\ round_collected(p, party[p].phase)
    /\ LET k == party[p].phase
       IN  \/ /\ k < 5
              /\ \E lib \in {"ok", "err", "panic"} : phase0_to_4(p, k, lib)
              /\ UNCHANGED result
           \/ /\ k = 5
              /\ \E pdl_ok, sum_ok \in BOOLEAN : \E blame \in phase5_blame(p) :
                    phase5(p, pdl_ok, sum_ok, blame)
              /\ UNCHANGED result
           \/ /\ k = 6
              /\ \E proof_ok, sum_ok \in BOOLEAN : \E blame \in phase6_blame(p) :
                    phase6(p, proof_ok, sum_ok, blame)
              /\ UNCHANGED result
           \/ /\ k = 7
              /\ \E output \in {"err", "valid", "invalid"} : phase7(p, output)
    /\ UNCHANGED <<protocol, started, commit_e, keyshare>>
    /\ UNCHANGED <<collect_vars, auth_vars, recovery_vars, guard_vars, store_vars, eddsa_vars, phase0_vars, dispatch_vars, eject_vars, keyfmt_vars, replay_vars, join_vars, wait_vars, keyinfo_vars>>

\* ---------------------------------------------------------- EdDSA signing
\* keysign_session_inner from the return of the collection of round k:
\* create_ephemeral_shared_key (rounds 0..3), publish_result of R (4),
\* create_shared_sig (5) and publish_result of the signature (6).
\* lib is the outcome of the library calls that follow the round; sig is
\* what thresholdsig::generate returned.
keysign_session_inner(p, lib_ok, sig) ==
    /\ protocol = "eddsa_sign"
    /\ p \in DOMAIN party
    /\ party[p].pc = "collect"
    /\ round_collected(p, party[p].phase)
    /\ LET k == party[p].phase
       IN  CASE k \in {0, 4} ->
                  /\ update(p, advance(collect_ok(p)))
                  /\ UNCHANGED result
             [] k \in {1, 2, 3} ->
                  /\ IF lib_ok THEN update(p, advance(collect_ok(p)))
                     ELSE update(p, stop(collect_ok(p), "failed"))
                  /\ UNCHANGED result
             [] k = 5 ->
                  \* verify_local_sigs, generate, signature.verify(message, y_sum)
                  IF ~lib_ok
                  THEN /\ update(p, stop(collect_ok(p), "failed"))
                       /\ UNCHANGED result
                  ELSE IF sig # "valid"
                  THEN /\ update(p, stop([collect_ok(p) EXCEPT !.sig = Some(sig)], "failed"))
                       /\ UNCHANGED result
                  ELSE /\ update(p, advance([collect_ok(p) EXCEPT !.sig = Some(sig)]))
                       /\ send_result(p, sig)
             [] k = 6 ->
                  /\ update(p, stop(collect_ok(p), "done"))
                  /\ UNCHANGED result
    /\ UNCHANGED <<protocol, started, commit_e, keyshare>>
    /\ UNCHANGED <<collect_vars, auth_vars, recovery_vars, guard_vars, store_vars, eddsa_vars, phase0_vars, dispatch_vars, eject_vars, keyfmt_vars, replay_vars, join_vars, wait_vars, keyinfo_vars>>

\* ----------------------------------------------------------- ECDSA keygen
\* commit_vec of phase1_round1: the commits in sender id order.
commit_vec == [i \in 1..SessionParties |-> commit_e[i - 1]]

\* save_to_file: paillier_key_vec = commit_vec[i].e for i in 0..party_count
save_to_file(p) == keyshare' = [keyshare EXCEPT ![p] = Some(commit_vec)]

\* KeygenClient::new from the return of the collection of round k, and for
\* round 5 the rest of keygen_session: save_to_file and the result.
KeygenClient_new(p, lib_ok, save_ok) ==
    /\ protocol = "keygen"
    /\ p \in DOMAIN party
    /\ party[p].pc = "collect"
    /\ round_collected(p, party[p].phase)
    /\ LET k == party[p].phase
       IN  CASE k = 1 ->
                  \* for commit in &commit_vec { check_for_small_primes(&commit.e)?; }
                  /\ IF \A i \in 1..Len(commit_vec) : check_for_small_primes(commit_vec[i])
                     THEN update(p, advance(collect_ok(p)))
                     ELSE update(p, stop(collect_ok(p), "failed"))
                  /\ UNCHANGED <<result, keyshare>>
             [] k \in {2, 3, 4} ->
                  /\ IF lib_ok THEN update(p, advance(collect_ok(p)))
                     ELSE update(p, stop(collect_ok(p), "failed"))
                  /\ UNCHANGED <<result, keyshare>>
             [] k = 5 ->
                  IF lib_ok /\ save_ok
                  THEN /\ update(p, stop(collect_ok(p), "done"))
                       /\ save_to_file(p)
                       /\ result' = result \cup {[by |-> p, kind |-> "keygen", value |-> "y_sum"]}
                  ELSE /\ update(p, stop(collect_ok(p), "failed"))
                       /\ UNCHANGED <<result, keyshare>>
    /\ UNCHANGED <<protocol, started, commit_e>>
    /\ UNCHANGED <<collect_vars, auth_vars, recovery_vars, guard_vars, store_vars, eddsa_vars, phase0_vars, dispatch_vars, eject_vars, keyfmt_vars, replay_vars, join_vars, wait_vars, keyinfo_vars>>

\* ------------------------------------------------- keyshare command handlers
\* paillier_key_vec values a command or a recovery package can carry.
WireVecs == [1..SessionParties -> WireModuli]

\* validate_all_matching_items
all_matching(items) == \A i \in 1..Len(items) : items[i] = items[1]

\* replace_elem_in_vec: <<>> stands for the Err of an index out of range.
replace_elem_in_vec(old_vec, index, new_value) ==
    IF index >= 0 /\ index < Len(old_vec)
    THEN Some([old_vec EXCEPT ![index + 1] = new_value])
    ELSE None

\* validate_ecdsa_specific_recovery_package_items: the packages' vectors
\* must match, then create_new_paillier_keys_and_update_vec.
validate_ecdsa_specific_recovery_package_items(paillier_key_vecs, recovery_index) ==
    IF ~all_matching(paillier_key_vecs) THEN None
    ELSE replace_elem_in_vec(paillier_key_vecs[1], recovery_index - 1, keypair)

reply(kind, value) == result' = result \cup {[by |-> 0, kind |-> kind, value |-> value]}

\* ReceiveRecoveryPackages::execute_message for Key::ECDSA:
\* process_recovery_packages of ECDSABehaviourTargetRole.
ReceiveRecoveryPackages(paillier_key_vecs, recovery_index, secret_ok, save_ok) ==
    /\ protocol = "recovery"
    /\ LET items == validate_ecdsa_specific_recovery_package_items(paillier_key_vecs, recovery_index)
       IN  IF secret_ok /\ is_some(items) /\ save_ok
           THEN /\ keyshare' = [keyshare EXCEPT ![0] = Some(unwrap(items))]
                /\ reply("recovery", "Validated")
           ELSE /\ reply("recovery", "Error")
                /\ UNCHANGED keyshare
    /\ UNCHANGED <<protocol, started, party, commit_e>>
    /\ UNCHANGED <<collect_vars, auth_vars, recovery_vars, guard_vars, store_vars, eddsa_vars, phase0_vars, dispatch_vars, eject_vars, keyfmt_vars, replay_vars, join_vars, wait_vars, keyinfo_vars>>

\* UpdatePaillierKeysCommand::execute_message
UpdatePaillierKeysCommand(new_eks, save_ok) ==
    /\ protocol = "update"
    /\ IF /\ \A i \in 1..Len(new_eks) : check_for_small_primes(new_eks[i])
          /\ is_some(keyshare[0])
          /\ save_ok
       THEN /\ keyshare' = [keyshare EXCEPT ![0] = Some(new_eks)]
            /\ reply("update", "Ok")
       ELSE /\ reply("update", "Err")
            /\ UNCHANGED keyshare
    /\ UNCHANGED <<protocol, started, party, commit_e>>
    /\ UNCHANGED <<collect_vars, auth_vars, recovery_vars, guard_vars, store_vars, eddsa_vars, phase0_vars, dispatch_vars, eject_vars, keyfmt_vars, replay_vars, join_vars, wait_vars, keyinfo_vars>>

\* pad_using(keyshare_index, default)
pad_using(eks, n, default) ==
    IF Len(eks) >= n THEN eks ELSE eks \o [i \in 1..(n - Len(eks)) |-> default]

\* update_paillier_keys
update_paillier_keys(eks, keyshare_index, new_ek) ==
    replace_elem_in_vec(IF keyshare_index >= Len(eks)
                        THEN pad_using(eks, keyshare_index, zero_key) ELSE eks,
                        keyshare_index - 1, new_ek)

\* UpdateSinglePaillierKeyCommand::execute_message
UpdateSinglePaillierKeyCommand(index, new_ek, save_ok) ==
    /\ protocol = "update"
    /\ IF /\ check_for_small_primes(new_ek)
          /\ is_some(keyshare[0])
          /\ is_some(update_paillier_keys(unwrap(keyshare[0]), index, new_ek))
          /\ save_ok
       THEN /\ keyshare' = [keyshare EXCEPT ![0] =
                                Some(unwrap(update_paillier_keys(unwrap(keyshare[0]), index, new_ek)))]
            /\ reply("update", "Ok")
       ELSE /\ reply("update", "Err")
            /\ UNCHANGED keyshare
    /\ UNCHANGED <<protocol, started, party, commit_e>>
    /\ UNCHANGED <<collect_vars, auth_vars, recovery_vars, guard_vars, store_vars, eddsa_vars, phase0_vars, dispatch_vars, eject_vars, keyfmt_vars, replay_vars, join_vars, wait_vars, keyinfo_vars>>

SessionNext ==
    \/ hub_start
    \/ \E p \in AllPartyIds : wait_for_start_message(p)
    \/ \E p \in AllPartyIds : collect_fails(p)
    \/ \E p \in AllPartyIds : sign(p)
    \/ \E p \in AllPartyIds : \E lib_ok \in BOOLEAN :
           \E sig \in {"valid", "invalid"} : keysign_session_inner(p, lib_ok, sig)
    \/ \E p \in AllPartyIds : \E lib_ok, save_ok \in BOOLEAN :
           KeygenClient_new(p, lib_ok, save_ok)
    \/ \E vecs \in [1..Helpers -> WireVecs] : \E r \in 1..(SessionParties + 1) :
           \E secret_ok, save_ok \in BOOLEAN : ReceiveRecoveryPackages(vecs, r, secret_ok, save_ok)
    \/ \E new_eks \in WireVecs : \E save_ok \in BOOLEAN : UpdatePaillierKeysCommand(new_eks, save_ok)
    \/ \E index \in 1..(SessionParties + 2) : \E new_ek \in WireModuli : \E save_ok \in BOOLEAN :
           UpdateSinglePaillierKeyCommand(index, new_ek, save_ok)

InitSession == CollectIdle /\ SessionInit /\ AuthIdle /\ RecoveryIdle /\ GuardIdle /\ StoreIdle /\ KeygenIdle /\ Phase0Idle /\ DispatchIdle /\ EjectIdle /\ KeyfmtIdle /\ ReplayIdle /\ JoinIdle /\ WaitIdle /\ KeyInfoIdle

SpecSession == InitSession /\ [][SessionNext]_vars

\* The steps of the worker thread of party p.
worker_step(p) ==
    \/ wait_for_start_message(p)
    \/ collect_fails(p)
    \/ sign(p)
    \/ \E lib_ok \in BOOLEAN : \E sig \in {"valid", "invalid"} : keysign_session_inner(p, lib_ok, sig)
    \/ \E lib_ok, save_ok \in BOOLEAN : KeygenClient_new(p, lib_ok, save_ok)

\* Scheduling of the session workers: each worker is a thread of its own
\* that runs whenever it can take a step.  Nothing makes the orchestrator
\* publish the start message.
SpecSessionFair ==
    /\ InitSession
    /\ [][SessionNext]_vars
    /\ \A p \in AllPartyIds : WF_vars(worker_step(p))

\* ------------------------------------------------------ claims on sessions
\* The parties whose round-k message party p's collection of round k needs.
required(p, k) == {q \in DOMAIN party : ~(k = p2p_round(protocol) /\ q = p)}

C6_WireKeysAreChecked ==
    /\ \A n \in DOMAIN keyshare :
          is_some(keyshare[n]) =>
              \A i \in 1..Len(unwrap(keyshare[n])) :
                  unwrap(keyshare[n])[i] \in WireModuli
                      => check_for_small_primes(unwrap(keyshare[n])[i])
    /\ protocol = "keygen" =>
          \A p \in DOMAIN party :
              2 \in party[p].published
                  => \A i \in 1..Len(commit_vec) : check_for_small_primes(commit_vec[i])

\* C8: a party whose phase 5 check of the R' sum failed has run the phase 5
\* blame, has not published in phase 6 and has published no result.
C8_Phase5FailureStops ==
    protocol = "sign" =>
        \A p \in DOMAIN party :
            party[p].R_dash_sum = "failed" =>
                /\ 5 \in party[p].blamed
                /\ 6 \notin party[p].published
                /\ \A r \in result : r.by # p

\* C9: a party whose phase 6 sum check failed has run the phase 6 blame, has
\* not published in phase 7 and has published no result.
C9_Phase6FailureStops ==
    protocol = "sign" =>
        \A p \in DOMAIN party :
            party[p].S_i_sum = "failed" =>
                /\ 6 \in party[p].blamed
                /\ 7 \notin party[p].published
                /\ \A r \in result : r.by # p

\* C10: every signature on a result subject is one its publisher verified
\* against y_sum, and a party whose reconstructed signature does not verify
\* has failed and has published nothing on the result subject.
C10_ResultIsVerified ==
    /\ \A r \in result :
          r.kind = "signature" =>
              /\ r.value = "valid"
              /\ party[r.by].sig = Some(r.value)
    /\ \A p \in DOMAIN party :
          party[p].sig = Some("invalid") =>
              /\ party[p].pc = "failed"
              /\ \A r \in result : r.by # p

C10_Witness ==
    /\ protocol = "sign"
    /\ \E p, q \in DOMAIN party :
          /\ [by |-> p, kind |-> "signature", value |-> "valid"] \in result
          /\ party[p].pc = "done"
          /\ party[q].sig = Some("invalid")
          /\ party[q].pc = "failed"

\* C21: handling never ends in a panic on input an adversarial peer or
\* caller chose, or on a silent peer: a signing worker whose orchestrator
\* never publishes the start message ends in an error result, not in a panic.
C21_SilenceEndsInError ==
    (protocol = "sign" /\ ~started) =>
        \A p \in DOMAIN party : party[p].pc # "panicked"

\* C25: every blocking wait of a session worker is bounded by a timeout, so
\* a worker whose peers or orchestrator stay silent ends its session
\* instead of waiting forever: every worker of a session eventually ends.
C25_EveryWorkerEnds ==
    <>(\A p \in DOMAIN party : party[p].pc \in {"done", "failed", "panicked"})

\* ==================================================================== Part 3
\* ------------------------------------------------------------------ bounds
\* Largest timestamp a request carries.
MaxTime == 1
\* Signing workers one run of the model spawns.
MaxSpawned == 2

\* ------------------------------------------------------------- requests
\* Signing keys a client can seal into a request.
Keys == {"access_key", "other_key"}
\* RFC3339 timestamps, as their order; BadTimestamp does not parse.
Timestamps == 0..MaxTime
BadTimestamp == -1
TransferPrefix == "Authorizing ownership transfer to "
Messages ==
    {[prefix |-> TransferPrefix, rest |-> "X"],
     [prefix |-> TransferPrefix, rest |-> "Y"],
     [prefix |-> "", rest |-> "hello"]}

\* HMAC-SHA256 with signing_key over format!("{}{}", timestamp, email),
\* base64 encoded: equal exactly when key and input are equal.
hmac(signing_key, timestamp, email) == <<signing_key, timestamp, email>>

\* encrypted_signing_key: a box sealed to a recipient's e2e key.
Sealed ==
    {[recipient |-> "node", plaintext |-> "access_key"],
     [recipient |-> "node", plaintext |-> "other_key"],
     [recipient |-> "other", plaintext |-> "access_key"]}

\* e2e_decrypt with the node's e2e_private_key: box_::open fails on a box
\* sealed to another key.
e2e_decrypt(encrypted_data) ==
    IF encrypted_data.recipient = "node" THEN Some(encrypted_data.plaintext) ELSE None

\* NewSignMessage / NewEdDSAKeySignMessage
SignMessages ==
    [kind : {"ecdsa", "eddsa"},
     timestamp : {None} \cup {Some(t) : t \in Timestamps \cup {BadTimestamp}},
     message_hmac : {None} \cup {Some(hmac(k, t, "e")) :
                                    k \in Keys, t \in Timestamps \cup {BadTimestamp}},
     email : {None, Some("e")},
     encrypted_signing_key : Sealed,
     is_transfer_tx : BOOLEAN,
     message : Messages]

\* NewSr25519KeySignSession: key_id, session_id, message, party_index.
Sr25519Messages == [kind : {"sr25519"}, message : Messages]

AuthInit ==
    /\ metadata \in [timestamp : {None},
                     access : {None, Some("access_key")},
                     new_identity_key : {None, Some("X")},
                     e2e_key : {None}]
    /\ inbox = None
    /\ spawned = [k \in {"ecdsa", "eddsa", "sr25519"} |-> 0]

\* verify_hmac
verify_hmac(provided_hmac, timestamp, email, signing_key) ==
    hmac(signing_key, timestamp, email) = provided_hmac

\* verify_timestamp accepting a timestamp equal to the stored one.
verify_timestamp_not_older(md, new_timestamp) ==
    /\ new_timestamp # BadTimestamp
    /\ is_some(md.timestamp) => new_timestamp >= unwrap(md.timestamp)

\* verify_timestamp, its verdict: the timestamp parses and is newer than
\* the stored one, if any.  On TRUE the new timestamp has been saved.
verify_timestamp(md, new_timestamp) ==
    /\ new_timestamp # BadTimestamp
    /\ is_some(md.timestamp) => new_timestamp > unwrap(md.timestamp)

\* The transfer block of the handler: the message names the stored
\* new_identity_key.
transfer_matches(md, message) ==
    /\ message.prefix = TransferPrefix
    /\ is_some(md.new_identity_key)
    /\ unwrap(md.new_identity_key) = message.rest

\* handle_new_session_message of signing/ecdsa/session.rs and of
\* signing/eddsa/session.rs up to the spawn: whether the handler reaches
\* the spawn, and the metadata it leaves.
authenticate(m, md) ==
    LET key == e2e_decrypt(m.encrypted_signing_key)
        reject(store) == [spawn |-> FALSE, md |-> store]
    IN  IF m.timestamp = None \/ m.message_hmac = None \/ m.email = None
        THEN reject(md)
        ELSE IF ~is_some(key) THEN reject(md)
        ELSE IF ~verify_hmac(unwrap(m.message_hmac), unwrap(m.timestamp),
                             unwrap(m.email), unwrap(key))
        THEN reject(md)
        ELSE IF ~verify_timestamp(md, unwrap(m.timestamp)) THEN reject(md)
        ELSE LET md1 == [md EXCEPT !.timestamp = m.timestamp]
             IN  IF m.is_transfer_tx /\ ~transfer_matches(md1, m.message)
                 THEN reject(md1)
                 ELSE LET md2 == IF m.is_transfer_tx
                                 THEN [md1 EXCEPT !.new_identity_key = None]
                                 ELSE md1
                      IN  IF ~is_some(md2.access) \/ unwrap(key) # unwrap(md2.access)
                          THEN reject(md2)
                          ELSE [spawn |-> TRUE,
                                md |-> [md2 EXCEPT !.e2e_key = Some("client")]]

\* thread::Builder::spawn: the worker starts unless the spawn fails.
spawn(kind, reached, spawn_ok) ==
    spawned' = IF reached /\ spawn_ok THEN [spawned EXCEPT ![kind] = @ + 1] ELSE spawned

workers == spawned["ecdsa"] + spawned["eddsa"] + spawned["sr25519"]

\* The bus delivers a request on one of the node's signing subjects.
deliver(m) ==
    /\ workers < MaxSpawned
    /\ inbox = None
    /\ inbox' = Some(m)
    /\ UNCHANGED <<metadata, spawned>>
    /\ UNCHANGED <<collect_vars, session_vars, recovery_vars, guard_vars, store_vars, eddsa_vars, phase0_vars, dispatch_vars, eject_vars, keyfmt_vars, replay_vars, join_vars, wait_vars, keyinfo_vars>>

\* signing::ecdsa::session::handle_new_session_message
ecdsa_handle_new_session_message(spawn_ok) ==
    /\ is_some(inbox)
    /\ unwrap(inbox).kind = "ecdsa"
    /\ metadata' = authenticate(unwrap(inbox), metadata).md
    /\ spawn("ecdsa", authenticate(unwrap(inbox), metadata).spawn, spawn_ok)
    /\ inbox' = None
    /\ UNCHANGED <<collect_vars, session_vars, recovery_vars, guard_vars, store_vars, eddsa_vars, phase0_vars, dispatch_vars, eject_vars, keyfmt_vars, replay_vars, join_vars, wait_vars, keyinfo_vars>>

\* signing::eddsa::session::handle_new_session_message
eddsa_handle_new_session_message(spawn_ok) ==
    /\ is_some(inbox)
    /\ unwrap(inbox).kind = "eddsa"
    /\ metadata' = authenticate(unwrap(inbox), metadata).md
    /\ spawn("eddsa", authenticate(unwrap(inbox), metadata).spawn, spawn_ok)
    /\ inbox' = None
    /\ UNCHANGED <<collect_vars, session_vars, recovery_vars, guard_vars, store_vars, eddsa_vars, phase0_vars, dispatch_vars, eject_vars, keyfmt_vars, replay_vars, join_vars, wait_vars, keyinfo_vars>>

\* signing::sr25519_musign::handle_new_session_message: the parsed session
\* goes to the worker thread.
sr25519_handle_new_session_message(spawn_ok) ==
    /\ is_some(inbox)
    /\ unwrap(inbox).kind = "sr25519"
    /\ spawn("sr25519", TRUE, spawn_ok)
    /\ inbox' = None
    /\ UNCHANGED metadata
    /\ UNCHANGED <<collect_vars, session_vars, recovery_vars, guard_vars, store_vars, eddsa_vars, phase0_vars, dispatch_vars, eject_vars, keyfmt_vars, replay_vars, join_vars, wait_vars, keyinfo_vars>>

AuthNext ==
    \/ \E m \in SignMessages \cup Sr25519Messages : deliver(m)
    \/ \E spawn_ok \in BOOLEAN : ecdsa_handle_new_session_message(spawn_ok)
    \/ \E spawn_ok \in BOOLEAN : eddsa_handle_new_session_message(spawn_ok)
    \/ \E spawn_ok \in BOOLEAN : sr25519_handle_new_session_message(spawn_ok)

InitAuth == CollectIdle /\ SessionIdle /\ AuthInit /\ RecoveryIdle /\ GuardIdle /\ StoreIdle /\ KeygenIdle /\ Phase0Idle /\ DispatchIdle /\ EjectIdle /\ KeyfmtIdle /\ ReplayIdle /\ JoinIdle /\ WaitIdle /\ KeyInfoIdle

SpecAuth == InitAuth /\ [][AuthNext]_vars

\* ------------------------------------------- claims on the request handlers
\* The authentication steps of a signing request, against the metadata the
\* node holds when the request arrives: (a) the signing key decrypts,
\* (b) the HMAC verifies, (c) the timestamp is newer than the stored one,
\* (d) a transfer names the stored new_identity_key, (e) the decrypted key
\* is the stored access key.
Authenticated(m, md) ==
    /\ m.kind \in {"ecdsa", "eddsa"}
    /\ is_some(m.timestamp) /\ is_some(m.message_hmac) /\ is_some(m.email)
    /\ is_some(e2e_decrypt(m.encrypted_signing_key))
    /\ unwrap(m.message_hmac)
         = hmac(unwrap(e2e_decrypt(m.encrypted_signing_key)), unwrap(m.timestamp), unwrap(m.email))
    /\ unwrap(m.timestamp) # BadTimestamp
    /\ is_some(md.timestamp) => unwrap(m.timestamp) > unwrap(md.timestamp)
    /\ m.is_transfer_tx =>
          /\ m.message.prefix = TransferPrefix
          /\ md.new_identity_key = Some(m.message.rest)
    /\ md.access = e2e_decrypt(m.encrypted_signing_key)

\* C7: whenever a signing worker is spawned, the request just handled had
\* passed every authentication step (a)-(e), whichever entry point took it.
C7_SpawnOnlyAfterAuthentication ==
    [][spawned' # spawned => Authenticated(unwrap(inbox), metadata)]_vars

\* A handler of authenticated signing requests takes the delivered request.
Handles ==
    /\ is_some(inbox)
    /\ inbox' = None
    /\ unwrap(inbox).kind \in {"ecdsa", "eddsa"}

C18_MismatchedTransferNotSigned ==
    [][(/\ Handles
        /\ unwrap(inbox).message.prefix = TransferPrefix
        /\ is_some(metadata.new_identity_key)
        /\ unwrap(metadata.new_identity_key) # unwrap(inbox).message.rest)
           => spawned' = spawned]_vars

\* C35: a step in which the ECDSA or EdDSA handler rejects the request it
\* was given leaves the stored timestamp and the stored new_identity_key
\* as they were.
C35_RejectionChangesNothing ==
    [][(/\ is_some(inbox)
        /\ unwrap(inbox).kind \in {"ecdsa", "eddsa"}
        /\ inbox' = None
        /\ ~authenticate(unwrap(inbox), metadata).spawn)
           => /\ metadata'.timestamp = metadata.timestamp
              /\ metadata'.new_identity_key = metadata.new_identity_key]_vars

\* ------------------------------------------------ claims on the keygen guard
\* The Err of check_for_small_primes: one fixed text, which names the CVE;
\* the function is given the key alone, so no sender id is in it.
small_primes_error ==
    [text |-> "Check for small prime factors has not passed! - Security issue: CVE-2023-33241",
     cve |-> Some("CVE-2023-33241"),
     sender_id |-> None]

\* The error keygen_session logs ("Failed to create a key: {err}") for a
\* party that KeygenClient::new stopped at the check of the commits.
keygen_guard_error(p) ==
    IF party[p].pc = "failed" /\ party[p].phase = 1 /\ 1 \in party[p].collected
    THEN Some(small_primes_error) ELSE None

\* Sender ids of the commits whose Paillier modulus has a small prime factor.
offenders == {q \in DOMAIN commit_e : ~check_for_small_primes(commit_e[q])}

\* C19: when a party's commit of ECDSA keygen carries a Paillier key with a
\* small prime factor, every other party that collected the commits has
\* aborted with an error that references CVE-2023-33241 and the offending
\* sender id, and has written no keyshare.
C19_AbortNamesOffender ==
    (protocol = "keygen" /\ offenders # {}) =>
        \A p \in DOMAIN party :
            1 \in party[p].collected =>
                /\ keygen_guard_error(p) # None
                /\ unwrap(keygen_guard_error(p)).cve = Some("CVE-2023-33241")
                /\ \E q \in offenders \ {p} :
                      unwrap(keygen_guard_error(p)).sender_id = Some(q)
                /\ keyshare[p] = None

\* ==================================================================== Part 4
\* ------------------------------------------------------------------ bounds
\* Parties of the key whose share is regenerated (share indices 1..KeyParties).
KeyParties == 5
\* Values a helper's Scalar::random() can take in the model: 1..MaxRandom.
MaxRandom == 2

\* ------------------------------------------------------- scalars and points
\* The curve scaled down: scalars are the integers modulo the prime group
\* order, and the point x * G is the residue Generator^x modulo PointModulus
\* (2 has order 11 modulo 23); adding points is multiplying residues.
GroupOrder == 11
PointModulus == 23
Generator == 2

scalar_add(a, b) == (a + b) % GroupOrder
scalar_sub(a, b) == (a - b + GroupOrder) % GroupOrder
scalar_mul(a, b) == (a * b) % GroupOrder
\* Scalar::invert of a non-zero scalar.
scalar_invert(a) == CHOOSE b \in 1..(GroupOrder - 1) : (a * b) % GroupOrder = 1

RECURSIVE scalar_sum(_)
scalar_sum(seq) ==
    IF seq = <<>> THEN 0 ELSE scalar_add(Head(seq), scalar_sum(Tail(seq)))

point_add(a, b) == (a * b) % PointModulus
\* point * scalar
RECURSIVE point_mul(_, _)
point_mul(point, scalar) ==
    IF scalar = 0 THEN 1 ELSE point_add(point, point_mul(point, scalar - 1))

\* ---------------------------------------------------------------- the key
\* keygen/ecdsa/client.rs, keygen/eddsa/orchestrate.rs: threshold of a
\* keyshare written by key generation, the degree of its polynomials.
keygen_THRESHOLD == 2

\* Coefficients of the polynomials the parties shared at key generation
\* (two of them here); a party's secret share is the sum of their values
\* at its index.
Polynomials == << <<3, 1, 2>>, <<5, 1, 0>> >>

RECURSIVE evaluate(_, _)
evaluate(coefficients, x) ==
    IF coefficients = <<>> THEN 0
    ELSE scalar_add(Head(coefficients), scalar_mul(x % GroupOrder, evaluate(Tail(coefficients), x)))

\* VerifiableSS: the commitments to the coefficients.
VerifiableSS(coefficients) ==
    [commitments |-> [m \in 1..Len(coefficients) |-> point_mul(Generator, coefficients[m])]]

\* An Sr25519 key is one polynomial shared by the node that generated it
\* (keygen/sr25519.rs), with the secret key as the share of index 0.
polynomials_of(kind) == IF kind = "Sr25519" THEN <<Polynomials[1]>> ELSE Polynomials

vss_scheme_vec(kind) ==
    [k \in 1..Len(polynomials_of(kind)) |-> VerifiableSS(polynomials_of(kind)[k])]

\* x_i of the party at share index i.
x_i(kind, i) ==
    scalar_sum([k \in 1..Len(polynomials_of(kind)) |-> evaluate(polynomials_of(kind)[k], i)])

\* VerifiableSS::get_point_commitment(index: u16): Horner's rule over the
\* commitments, last one first.
RECURSIVE horner(_, _)
horner(commitments, index_fe) ==
    IF Len(commitments) = 1 THEN commitments[1]
    ELSE point_add(commitments[1], point_mul(horner(Tail(commitments), index_fe), index_fe))

get_point_commitment(vss, index) == horner(vss.commitments, (index % 65536) % GroupOrder)

\* ------------------------------------------------------ RecoveryCalculator
RECURSIVE scalar_product(_)
scalar_product(seq) ==
    IF seq = <<>> THEN 1 ELSE scalar_mul(Head(seq), scalar_product(Tail(seq)))

\* points[i] = Scalar::from(i + 1)
points(i) == (i + 1) % GroupOrder

\* map_share_to_new_params_for_x: the Lagrange coefficient of the share at
\* `index` for the value at `x_index`, over the indices in s.
map_share_to_new_params_for_x(x_index, index, s) ==
    LET num == scalar_product([i \in 1..Len(s) |->
                   IF s[i] # index THEN scalar_sub(points(s[i]), points(x_index)) ELSE 1])
        denum == scalar_product([i \in 1..Len(s) |->
                   IF s[i] # index THEN scalar_sub(points(s[i]), points(index)) ELSE 1])
    IN  scalar_mul(num, scalar_invert(denum))

\* create_linear_shares_of_scalar with the random scalars rij it drew.
create_linear_shares_of_scalar(scalar, rij) ==
    [retained |-> scalar_sub(scalar, scalar_sum(rij)), for_peer_exchange |-> rij]

\* create_secret_sharing_of_lost_share
create_secret_sharing_of_lost_share(recovery_index, party_index, all_parties, secret_share, rij) ==
    create_linear_shares_of_scalar(
        scalar_mul(secret_share,
                   map_share_to_new_params_for_x(recovery_index, party_index, all_parties)),
        rij)

\* sum_secret_shares
sum_secret_shares(rii, mixed_shares) == scalar_add(scalar_sum(mixed_shares), rii)

\* validate_recovered_share: the fold of the point commitments at `index`
\* over the VSS vector (which the caller has checked to be non-empty).
RECURSIVE point_commitment_sum(_, _)
point_commitment_sum(vss, index) ==
    IF Len(vss) = 1 THEN get_point_commitment(vss[1], index)
    ELSE point_add(point_commitment_sum(SubSeq(vss, 1, Len(vss) - 1), index),
                   get_point_commitment(vss[Len(vss)], index))

\* TRUE for Ok(()).
validate_recovered_share(secret, vss, index) ==
    point_mul(Generator, secret) = point_commitment_sum(vss, index)

\* ------------------------------------------------------ keyshares on disk
Kinds == {"ECDSA", "EDDSA", "Sr25519"}

\* Node id of the node that receives the regenerated share; the surviving
\* nodes are named by the share index they hold.
NewNode == 0

\* Values Scalar::random() takes in the model.
Randoms == 1..MaxRandom

\* The Paillier key party i published at key generation.
keygen_ek(i) == 70000 + i

\* The keyshare key generation wrote on the node with share index i
\* (EDDSA has no Paillier or public-key vector).
\* calculate_y_sum_from_vss_vec: the sum of the first commitments.
RECURSIVE calculate_y_sum_from_vss_vec(_)
calculate_y_sum_from_vss_vec(vss_vec) ==
    IF Len(vss_vec) = 1 THEN vss_vec[1].commitments[1]
    ELSE point_add(calculate_y_sum_from_vss_vec(SubSeq(vss_vec, 1, Len(vss_vec) - 1)),
                   vss_vec[Len(vss_vec)].commitments[1])

\* The keyshare keygen stored for share index i.  An Sr25519 keyshare has no
\* y_sum (0 here, which is no point) and holds the secret key at index 0.
keygen_keyshare(kind, i) ==
    [party_index |-> i,
     threshold |-> keygen_THRESHOLD,
     x_i |-> x_i(kind, i),
     y_sum |-> IF kind = "Sr25519" THEN 0 ELSE calculate_y_sum_from_vss_vec(vss_scheme_vec(kind)),
     secret_key |-> IF kind = "Sr25519" /\ i = 0 THEN Some(x_i(kind, i)) ELSE None,
     vss_scheme_vec |-> vss_scheme_vec(kind),
     paillier_key_vec |-> IF kind = "ECDSA" THEN [k \in 1..KeyParties |-> keygen_ek(k)] ELSE <<>>,
     public_key_vec |-> IF kind = "ECDSA"
                        THEN [k \in 1..KeyParties |-> point_mul(Generator, k)] ELSE <<>>]

\* Ways the keyshare file of one helper can differ from its peers' files.
Faults == {"none", "x_i", "vss", "paillier", "public_key"}

damaged(ks, fault) ==
    CASE fault = "x_i" -> [ks EXCEPT !.x_i = scalar_add(@, 1)]
      [] fault = "vss" -> [ks EXCEPT !.vss_scheme_vec = <<@[2], @[1]>>]
      [] fault = "paillier" -> [ks EXCEPT !.paillier_key_vec[1] = 65537]
      [] fault = "public_key" -> [ks EXCEPT !.public_key_vec[1] = point_mul(Generator, 0)]
      [] OTHER -> ks

\* Share indices of the nodes that still hold a share.
Survivors(recovery_index) == (1..KeyParties) \ {recovery_index}

\* Config::get_key_storage_path ("legacy") and the path under
\* accounts/<email>/keys ("account") of FileSystem::add_keyfile_with_email.
NoFiles == [account |-> None, legacy |-> None]

\* FileSystem::add_keyfile / add_keyfile_with_email: CreateNewOnly refuses an
\* existing file; io_ok is the outcome of fs::write.  None stands for Err.
add_keyfile(slot, ks, write_access, io_ok) ==
    IF write_access = "CreateNewOnly" /\ slot # None THEN None
    ELSE IF ~io_ok THEN None
    ELSE Some(Some(ks))

\* Keystore::save_key: the file at Config::get_key_storage_path.
Keystore_save_key(node_files, ks, write_access, io_ok) ==
    LET written == add_keyfile(node_files.legacy, ks, write_access, io_ok)
    IN  IF written = None THEN None ELSE Some([node_files EXCEPT !.legacy = written[1]])
\* Keystore::save_key_with_email: the file under accounts/<email>/keys.
Keystore_save_key_with_email(node_files, ks, write_access, io_ok) ==
    LET written == add_keyfile(node_files.account, ks, write_access, io_ok)
    IN  IF written = None THEN None ELSE Some([node_files EXCEPT !.account = written[1]])
\* Keystore::get_key: None stands for the Err of a missing file.
Keystore_get_key(node_files) == node_files.legacy
\* Keystore::get_key_with_email
Keystore_get_key_with_email(node_files) == node_files.account

\* KeyshareSaver::save_key: the email of the saver selects the file.
KeyshareSaver_save_key(saver, node_files, ks, io_ok) ==
    IF saver.email
    THEN Keystore_save_key_with_email(node_files, ks, saver.write_access, io_ok)
    ELSE Keystore_save_key(node_files, ks, saver.write_access, io_ok)

\* KeyshareSaver::new_creator and new_creator_modifier: neither sets an email.
new_creator == [write_access |-> "CreateNewOnly", email |-> FALSE]
new_creator_modifier == [write_access |-> "Modify", email |-> FALSE]

\* ---------------------------------------------------------------- scenarios
\* Share index of the node that was lost.
LostIndex == 3

\* The k lowest members of a set of indices.
lowest(S, k) == {Ascending(S)[i] : i \in 1..k}

\* party_nodes of a RecoveryCommand: every choice of threshold + 1 helpers,
\* all the survivors, and the lowest `threshold` of them.
PartySets(recovery_index) ==
    {S \in SUBSET Survivors(recovery_index) : Cardinality(S) = keygen_THRESHOLD + 1}
        \cup {Survivors(recovery_index)}
        \cup {lowest(Survivors(recovery_index), keygen_THRESHOLD)}

\* create_recovery_result
create_recovery_result(ks, secret) ==
    [partial_secret |-> secret,
     vss_vec |-> ks.vss_scheme_vec,
     paillier_key_vec |-> ks.paillier_key_vec,
     public_key_vec |-> ks.public_key_vec]

\* BroadcastMessage
BroadcastMessage(sender_id, message) == [sender_id |-> sender_id, message |-> message]

\* The packages helpers S publish for the share of index r when every
\* contribution they exchanged arrived: the random parts cancel, and helper
\* j's partial secret is its share times its Lagrange coefficient.
PublishedPackages(kind, r, S) ==
    {BroadcastMessage(j,
        create_recovery_result(keygen_keyshare(kind, j),
            scalar_mul(x_i(kind, j), map_share_to_new_params_for_x(r, j, Ascending(S)))))
     : j \in S}

\* entry "orchestrate": a RecoveryCommand run by orchestrate; "command": a
\* ReceiveRecoveryPackages command delivered to the new node; "session": a
\* NewKeyShareRecoverySession with role Target delivered to the new node.
\* package_index is the index the packages of the latter two were made for.
Scenarios ==
    {sc \in [entry : {"orchestrate", "command", "session"},
             kind : Kinds,
             recovery_index : {0, LostIndex},
             package_index : {0, LostIndex},
             party_nodes : SUBSET (1..KeyParties),
             fault : Faults,
             legacy_copy : BOOLEAN] :
        /\ sc.fault \in {"paillier", "public_key"} => sc.kind = "ECDSA"
        /\ sc.legacy_copy => sc.kind = "ECDSA" /\ sc.fault = "none"
        /\ IF sc.entry = "orchestrate"
           THEN /\ sc.kind # "Sr25519"
                /\ sc.package_index = sc.recovery_index
                /\ sc.party_nodes \in PartySets(sc.recovery_index)
                /\ (sc.fault # "none" \/ sc.recovery_index = 0)
                      => sc.party_nodes = lowest(Survivors(sc.recovery_index),
                                                 keygen_THRESHOLD + 1)
                /\ sc.recovery_index = 0 => sc.fault = "none" /\ ~sc.legacy_copy
           ELSE /\ sc.party_nodes = lowest(Survivors(sc.package_index), keygen_THRESHOLD + 1)
                /\ sc.fault = "none"
                /\ ~sc.legacy_copy}

\* ------------------------------------------------------------ target role
\* RecoveryValidationResult as it is serialised: an untagged enum of three
\* externally tagged enums.  ek is 0 where the variant carries no key.
validated == [tag |-> "Validated", ek |-> 0, msg |-> ""]
validated_with_eks(eks) == [tag |-> "Validated", ek |-> eks, msg |-> ""]
error(err) == [tag |-> "ValidationError", ek |-> 0, msg |-> err]
\* What the caller holds when no RecoveryValidationResult was produced:
\* the handler returned Err (the "ERROR: ..." text of handle_nats_command, or
\* nothing on the session path), or its thread panicked.
handler_err(err) == [tag |-> "Err", ek |-> 0, msg |-> err]
handler_panic == [tag |-> "panic", ek |-> 0, msg |-> ""]
NoResponse == [tag |-> "none", ek |-> 0, msg |-> ""]

\* serde_json::from_slice::<RecoveryValidationResult>: the first variant
\* whose shape fits the data.
RecoveryValidationResult_from_slice(data) ==
    CASE data.tag = "Validated" /\ data.ek # 0 -> "ECDSA"
      [] data.tag = "Validated" /\ data.ek = 0 -> "EDDSA"
      [] data.tag = "ValidationError" -> "Error"
      [] OTHER -> "Err"

\* The packages in the order of their senders.
sorted_by_sender_id(pkgs) ==
    LET senders == Ascending({m.sender_id : m \in pkgs})
    IN  [i \in 1..Len(senders) |->
            (CHOOSE m \in pkgs : m.sender_id = senders[i]).message]

\* recover_and_validate_secret without its call of validate_recovered_share.
recover_and_validate_secret_unvalidated(recovery_index, share_infos) ==
    LET vss_vec == [i \in 1..Len(share_infos) |-> share_infos[i].vss_vec]
        secrets == [i \in 1..Len(share_infos) |-> share_infos[i].partial_secret]
        secret == scalar_sum(secrets)
    IN  IF ~all_matching(vss_vec)
        THEN [ok |-> FALSE, msg |-> "VSS scheme vecs provided do not match"]
        ELSE [ok |-> TRUE, msg |-> "", secret |-> secret, vss |-> vss_vec[1],
              y_sum |-> calculate_y_sum_from_vss_vec(vss_vec[1])]

\* recover_and_validate_secret: Err(msg), or Ok of the secret and the VSS.
recover_and_validate_secret(recovery_index, share_infos) ==
    LET vss_vec == [i \in 1..Len(share_infos) |-> share_infos[i].vss_vec]
        secrets == [i \in 1..Len(share_infos) |-> share_infos[i].partial_secret]
        secret == scalar_sum(secrets)
    IN  IF ~all_matching(vss_vec)
        THEN [ok |-> FALSE, msg |-> "VSS scheme vecs provided do not match"]
        ELSE IF ~validate_recovered_share(secret, vss_vec[1], recovery_index)
        THEN [ok |-> FALSE, msg |-> "Recovered key share did not pass validation"]
        ELSE [ok |-> TRUE, msg |-> "", secret |-> secret, vss |-> vss_vec[1],
              y_sum |-> calculate_y_sum_from_vss_vec(vss_vec[1])]

\* validate_ecdsa_specific_recovery_package_items on whole packages: the
\* public key vectors are compared before the Paillier key vectors.
\* overflow_checks tells whether `recovery_index - 1` panics at 0 or wraps.
ECDSASpecificValidatedRecoveryItems(pkgs, recovery_index, overflow_checks) ==
    LET public_key_vecs == [i \in 1..Len(pkgs) |-> pkgs[i].public_key_vec]
        paillier_key_vecs == [i \in 1..Len(pkgs) |-> pkgs[i].paillier_key_vec]
        updated == validate_ecdsa_specific_recovery_package_items(paillier_key_vecs,
                                                                  recovery_index)
    IN  IF ~all_matching(public_key_vecs)
        THEN [ok |-> FALSE, panic |-> FALSE, msg |-> "Public key vec provided do not match"]
        ELSE IF ~all_matching(paillier_key_vecs)
        THEN [ok |-> FALSE, panic |-> FALSE,
              msg |-> "Paillier encryption keys provided do not match"]
        ELSE IF recovery_index = 0 /\ overflow_checks
        THEN [ok |-> FALSE, panic |-> TRUE, msg |-> "attempt to subtract with overflow"]
        ELSE IF updated = None
        THEN [ok |-> FALSE, panic |-> FALSE, msg |-> "Unable to access element at index"]
        ELSE [ok |-> TRUE, panic |-> FALSE, msg |-> "",
              public_key_vec |-> public_key_vecs[1],
              new_paillier_key_vec |-> updated[1],
              paillier_ek |-> keypair]

\* The message of a result for a keyshare that passed validation and could
\* not be written.
not_saved == "The keyshare was recovered and validated successfully but the new keyshare file could not be saved"

\* The key_saver of the three target roles.
key_saver(kind) == IF kind = "Sr25519" THEN new_creator ELSE new_creator_modifier

\* process_recovery_packages of EdDSABehaviourTargetRole,
\* ECDSABehaviourTargetRole and Sr25519BehaviourTargetRole: the result and
\* the files of the node afterwards.
process_recovery_packages(kind, recovery_index, threshold, pkgs, node_files, io_ok, overflow_checks) ==
    LET rv == recover_and_validate_secret(recovery_index, pkgs)
        items == ECDSASpecificValidatedRecoveryItems(pkgs, recovery_index, overflow_checks)
        new_keyshare ==
            [party_index |-> recovery_index,
             threshold |-> threshold,
             x_i |-> rv.secret,
             y_sum |-> IF kind = "Sr25519" THEN 0 ELSE rv.y_sum,
             secret_key |-> IF kind = "Sr25519" /\ recovery_index = 0
                            THEN Some(rv.secret) ELSE None,
             vss_scheme_vec |-> IF kind = "Sr25519" THEN <<rv.vss[1]>> ELSE rv.vss,
             paillier_key_vec |-> IF kind = "ECDSA" THEN items.new_paillier_key_vec ELSE <<>>,
             public_key_vec |-> IF kind = "ECDSA" THEN items.public_key_vec ELSE <<>>]
        saved == KeyshareSaver_save_key(key_saver(kind), node_files, new_keyshare, io_ok)
        prefix == "The provided recovery packages could not be validated: "
    IN  IF ~rv.ok
        THEN [result |-> error(prefix \o rv.msg), files |-> node_files]
        ELSE IF kind = "ECDSA" /\ items.panic
        THEN [result |-> handler_panic, files |-> node_files]
        ELSE IF kind = "ECDSA" /\ ~items.ok
        THEN [result |-> error(prefix \o items.msg), files |-> node_files]
        ELSE IF saved = None
        THEN [result |-> error(not_saved), files |-> node_files]
        ELSE [result |-> IF kind = "ECDSA" THEN validated_with_eks(items.paillier_ek)
                         ELSE validated,
              files |-> saved[1]]

\* recover_keyshare: decrypt_from_all_parties, then process_recovery_packages.
recover_keyshare(kind, recovery_index, threshold, pkgs, node_files, decrypt_ok, io_ok, overflow_checks) ==
    IF ~decrypt_ok
    THEN [result |-> handler_err("Unable to decrypt"), files |-> node_files]
    ELSE process_recovery_packages(kind, recovery_index, threshold, pkgs, node_files,
                                   io_ok, overflow_checks)

\* ------------------------------------------------------- recovery: state
\* Node ids: a surviving node goes by its share index, the new node is NewNode.
RecoveryNodes(sc) == {NewNode} \cup Survivors(sc.package_index)

\* The helper whose keyshare file a fault has damaged.
FaultyHelper(sc) == Ascending(sc.party_nodes)[1]

helper_at(pc, retained, err) == [pc |-> pc, retained |-> retained, err |-> err]

\* The keyshare files before the recovery: none on the new node.
files_before(sc) ==
    [n \in RecoveryNodes(sc) |->
        IF n = NewNode THEN NoFiles
        ELSE [account |-> Some(IF n = FaultyHelper(sc)
                               THEN damaged(keygen_keyshare(sc.kind, n), sc.fault)
                               ELSE keygen_keyshare(sc.kind, n)),
              legacy |-> IF sc.legacy_copy
                         THEN Some(keygen_keyshare(sc.kind, n)) ELSE None]]

\* ------------------------------------------------------------------ key info
\* shared::key_info::NodeInfo
NodeInfo(node_id, networking_public_key, kind, share_index) == [node_id |-> node_id, networking_public_key |-> networking_public_key, kind |-> kind, share_index |-> share_index]

\* The networking public key of a node, and the kind (Node) it was given.
networking_public_key_of(n) == 100 + n
node_kind(n) == IF n = 1 THEN "Owner" ELSE IF n % 2 = 0 THEN "ServerGuardian" ELSE "Guardian"

\* old_node_id of the RecoveryCommand: the node that held the share to
\* recover.  Node n of the keygen holds share n; a share of index 0 is held
\* by a node of its own.
old_node_id(sc) == IF sc.recovery_index = 0 THEN KeyParties + 1 ELSE sc.recovery_index

\* The KeyInfo every node stored at keygen, the pool listed from the last
\* node to the first.
keygen_key_info(sc) ==
    LET holders == IF sc.recovery_index = 0 THEN <<KeyParties + 1>> ELSE <<>>
        ids == holders \o [i \in 1..KeyParties |-> KeyParties + 1 - i]
    IN  [kind |-> sc.kind,
         node_pool |-> [i \in 1..Len(ids) |->
                          NodeInfo(ids[i], networking_public_key_of(ids[i]), node_kind(ids[i]),
                                   IF ids[i] > KeyParties THEN 0 ELSE ids[i])]]

\* position(|n| n.node_id == *old_node_id).unwrap(): 0-based; the caller
\* has found the node in the pool already.
position_of(node_pool, node_id) ==
    (CHOOSE i \in 1..Len(node_pool) :
        /\ node_pool[i].node_id = node_id
        /\ \A k \in 1..(i - 1) : node_pool[k].node_id # node_id) - 1

\* enrich_key_info that adds the new node's entry and keeps the old one.
enrich_key_info_appending(key_info_, new_node_id, new_node_networking_public_key, old_node_id_) ==
    LET old_node_index == position_of(key_info_.node_pool, old_node_id_)
    IN  [key_info_ EXCEPT !.node_pool = @ \o
            <<NodeInfo(new_node_id, new_node_networking_public_key,
                       key_info_.node_pool[old_node_index + 1].kind,
                       key_info_.node_pool[old_node_index + 1].share_index)>>]

\* enrich_key_info
enrich_key_info(key_info_, new_node_id, new_node_networking_public_key, old_node_id_) ==
    LET old_node_index == position_of(key_info_.node_pool, old_node_id_)
    IN  [key_info_ EXCEPT !.node_pool[old_node_index + 1] =
            NodeInfo(new_node_id, new_node_networking_public_key,
                     key_info_.node_pool[old_node_index + 1].kind,
                     key_info_.node_pool[old_node_index + 1].share_index)]

\* Keygen stored every keyshare under the account of the email
\* (keygen/ecdsa/session.rs: new_creator(..).with_email(..)); legacy_copy is
\* a node that also holds the file of the older layout.
RecoveryInit ==
    \E sc \in Scenarios :
        /\ rec = sc
        /\ files = files_before(sc)
        /\ key_info = [n \in RecoveryNodes(sc) |-> keygen_key_info(sc)]
        /\ orch = "off"
        /\ helper = [j \in (IF sc.entry = "orchestrate" THEN sc.party_nodes ELSE {}) |->
                        helper_at("new", 0, "")]
        /\ p2p = {}
        /\ packages = IF sc.entry = "orchestrate" THEN {}
                      ELSE PublishedPackages(sc.kind, sc.package_index, sc.party_nodes)
        /\ target = [pc |-> "idle", response |-> NoResponse]
        /\ outbox = {}
        /\ loaded = [attempted |-> FALSE, key |-> None]

recovery_frame == UNCHANGED <<collect_vars, session_vars, auth_vars, guard_vars, store_vars, eddsa_vars, phase0_vars, dispatch_vars, eject_vars, keyfmt_vars, replay_vars, join_vars, wait_vars, keyinfo_vars>>

\* The bail! of handle for the zero index.
zero_index_restricted == "Recovery of the zero index keyshare (the underlying secret key) is restricted to Sr25519 recoveries"

\* ----------------------------------------------------- recovery: helpers
\* orchestrate up to the wait for the Join messages: the helper message is
\* published to every node of party_nodes.
orchestrate_publish ==
    /\ rec.entry = "orchestrate"
    /\ orch = "off"
    /\ orch' = "joining"
    /\ UNCHANGED <<rec, files, key_info, helper, p2p, packages, target, outbox, loaded>>
    /\ recovery_frame

\* NewKeyShareRecoverySession::handle with role Helper, up to the Join
\* message of Nats::new_session.
handle_Helper(j) ==
    /\ orch = "joining"
    /\ j \in DOMAIN helper
    /\ helper[j].pc = "new"
    /\ helper' = [helper EXCEPT ![j] =
          IF rec.kind # "Sr25519" /\ rec.recovery_index = 0
          THEN helper_at("failed", 0, zero_index_restricted)
          ELSE IF Keystore_get_key_with_email(files[j]) = None
          THEN helper_at("failed", 0, "Keyfile not found")
          ELSE helper_at("joining", 0, "")]
    /\ UNCHANGED <<rec, files, key_info, orch, p2p, packages, target, outbox, loaded>>
    /\ recovery_frame

\* orchestrate: party_count Join messages arrived; the JoinResponse with the
\* sorted share indices is sent to each of them.
orchestrate_join ==
    /\ orch = "joining"
    /\ \A j \in DOMAIN helper : helper[j].pc = "joining"
    /\ orch' = "gathering"
    /\ helper' = [j \in DOMAIN helper |-> helper_at("joined", 0, "")]
    /\ UNCHANGED <<rec, files, key_info, p2p, packages, target, outbox, loaded>>
    /\ recovery_frame

\* send_recovery_package up to the wait of send_p2p_and_collect_messages.
\* rij are the scalars create_linear_shares_of_scalar draws, one for each
\* unit of the keyshare's threshold.
send_recovery_package(j, rij) ==
    /\ j \in DOMAIN helper
    /\ helper[j].pc = "joined"
    /\ LET key == Keystore_get_key_with_email(files[j])[1]
           all_parties == Ascending(DOMAIN helper)
           other_party_indices == SelectSeq(all_parties, LAMBDA x : x # j)
           contrib == create_secret_sharing_of_lost_share(rec.recovery_index, j,
                          all_parties, key.x_i, rij)
           msg_count == Len(contrib.for_peer_exchange)
           published == IF msg_count < Len(other_party_indices)
                        THEN msg_count ELSE Len(other_party_indices)
       IN  /\ Len(rij) = key.threshold
           /\ IF msg_count > Len(other_party_indices)
              THEN \* encrypt_for_peers indexes peer_encryption_keys out of bounds
                   /\ helper' = [helper EXCEPT ![j] =
                                    helper_at("panicked", 0, "index out of bounds")]
                   /\ UNCHANGED p2p
              ELSE /\ p2p' = p2p \cup
                        {[from |-> j, to |-> other_party_indices[i],
                          share |-> contrib.for_peer_exchange[i]] : i \in 1..published}
                   /\ helper' = [helper EXCEPT ![j] =
                        IF msg_count < Len(other_party_indices)
                        THEN helper_at("failed", 0, "Incorrect number of outgoing messages")
                        ELSE helper_at("collecting", contrib.retained, "")]
    /\ UNCHANGED <<rec, files, key_info, orch, packages, target, outbox, loaded>>
    /\ recovery_frame

\* The rest of send_recovery_package: the shares of the other helpers have
\* arrived; sum, package, broadcast DeliverRecoveryPackage.
deliver_recovery_package(j) ==
    /\ j \in DOMAIN helper
    /\ helper[j].pc = "collecting"
    /\ LET senders == Ascending(DOMAIN helper \ {j})
           key == Keystore_get_key_with_email(files[j])[1]
       IN  /\ \A k \in DOMAIN helper \ {j} : \E m \in p2p : m.from = k /\ m.to = j
           /\ LET received == [i \in 1..Len(senders) |->
                                 (CHOOSE m \in p2p : m.from = senders[i] /\ m.to = j).share]
                  partial_share == sum_secret_shares(helper[j].retained, received)
              IN  packages' = packages \cup
                      {BroadcastMessage(j, create_recovery_result(key, partial_share))}
           /\ p2p' = {m \in p2p : m.to # j}
    /\ helper' = [helper EXCEPT ![j] = helper_at("done", 0, "")]
    /\ UNCHANGED <<rec, files, key_info, orch, target, outbox, loaded>>
    /\ recovery_frame

\* orchestrate: party_count packages arrived, are sorted by sender_id and
\* sent to the new node in a ReceiveRecoveryPackages request.
orchestrate_request ==
    /\ orch = "gathering"
    /\ \A j \in DOMAIN helper : \E m \in packages : m.sender_id = j
    /\ orch' = "requested"
    /\ UNCHANGED <<rec, files, key_info, helper, p2p, packages, target, outbox, loaded>>
    /\ recovery_frame

\* ---------------------------------------------- recovery: the new node
\* ReceiveRecoveryPackages::execute_message: process_rec_package with the
\* target role of the kind; handle_nats_command sends the response.
process_rec_package(decrypt_ok, io_ok, overflow_checks) ==
    /\ rec.entry = "command" \/ orch = "requested"
    /\ rec.entry # "session"
    /\ target.pc = "idle"
    /\ LET done == recover_keyshare(rec.kind, rec.recovery_index, keygen_THRESHOLD,
                       sorted_by_sender_id(packages), files[NewNode],
                       decrypt_ok, io_ok, overflow_checks)
       IN  /\ target' = [pc |-> "done", response |-> done.result]
           /\ files' = [files EXCEPT ![NewNode] = done.files]
    /\ packages' = {}
    /\ UNCHANGED <<rec, key_info, orch, helper, p2p, outbox, loaded>>
    /\ recovery_frame

\* NewKeyShareRecoverySession::handle with role Target: the check of the
\* zero index, then recover_keyshare on the collected packages and
\* broadcast_result.
handle_Target(decrypt_ok, io_ok, overflow_checks) ==
    /\ rec.entry = "session"
    /\ target.pc = "idle"
    /\ IF rec.kind # "Sr25519" /\ rec.recovery_index = 0
       THEN /\ target' = [pc |-> "done", response |-> handler_err(zero_index_restricted)]
            /\ UNCHANGED files
       ELSE LET done == recover_keyshare(rec.kind, rec.recovery_index, keygen_THRESHOLD,
                            sorted_by_sender_id(packages), files[NewNode],
                            decrypt_ok, io_ok, overflow_checks)
            IN  /\ target' = [pc |-> "done", response |-> done.result]
                /\ files' = [files EXCEPT ![NewNode] = done.files]
    /\ packages' = {}
    /\ UNCHANGED <<rec, key_info, orch, helper, p2p, outbox, loaded>>
    /\ recovery_frame

\* ------------------------------------- recovery: after the new node's reply
UpdatePaillierKeys(to, new_eks) == [cmd |-> "UpdatePaillierKeysCommand", to |-> to, new_eks |-> new_eks, key_info |-> <<>>]
UpdateKeyInfo(to, enriched) == [cmd |-> "UpdateKeyInfoCommand", to |-> to, new_eks |-> <<>>, key_info |-> enriched]

\* orchestrate from the reply of the new node to its return.
orchestrate_validate ==
    /\ orch = "requested"
    /\ target.pc = "done"
    /\ LET validation_msg == RecoveryValidationResult_from_slice(target.response)
           eks_update == IF rec.kind = "ECDSA" /\ validation_msg = "ECDSA"
                     THEN {UpdatePaillierKeys(n, <<target.response.ek>>) : n \in rec.party_nodes}
                     ELSE {}
           bails == \/ validation_msg = "Err"
                    \/ rec.kind # "ECDSA" /\ validation_msg # "EDDSA"
           enriched == enrich_key_info(keygen_key_info(rec), NewNode,
                                       networking_public_key_of(NewNode), old_node_id(rec))
       IN  IF bails
           THEN /\ orch' = "failed"
                /\ UNCHANGED outbox
           ELSE /\ orch' = "completed"
                /\ outbox' = outbox \cup eks_update
                                \cup {UpdateKeyInfo(enriched.node_pool[i].node_id, enriched) :
                                          i \in 1..Len(enriched.node_pool)}
    /\ UNCHANGED <<rec, files, key_info, helper, p2p, packages, target, loaded>>
    /\ recovery_frame

\* UpdatePaillierKeysCommand::execute_message on the node the command was
\* published to: the keyshare is looked up without an email.
UpdatePaillierKeysCommand_execute_message(n) ==
    /\ n \in DOMAIN files
    /\ \E m \in outbox :
        /\ m.cmd = "UpdatePaillierKeysCommand"
        /\ m.to = n
        /\ outbox' = outbox \ {m}
        /\ LET ka == Keystore_get_key(files[n])
           IN  IF \E i \in 1..Len(m.new_eks) : ~check_for_small_primes(m.new_eks[i])
               THEN UNCHANGED files
               ELSE IF ka = None
               THEN UNCHANGED files
               ELSE files' = [files EXCEPT ![n] =
                        Keystore_save_key(@, [ka[1] EXCEPT !.paillier_key_vec = m.new_eks],
                                          "Modify", TRUE)[1]]
    /\ UNCHANGED <<rec, key_info, orch, helper, p2p, packages, target, loaded>>
    /\ recovery_frame

\* UpdateKeyInfoCommand::execute_message: save_key_info with WriteOpts::Modify.
UpdateKeyInfoCommand_execute_message(n) ==
    /\ n \in DOMAIN key_info
    /\ \E m \in outbox :
        /\ m.cmd = "UpdateKeyInfoCommand"
        /\ m.to = n
        /\ outbox' = outbox \ {m}
        /\ key_info' = [key_info EXCEPT ![n] = m.key_info]
    /\ UNCHANGED <<rec, files, orch, helper, p2p, packages, target, loaded>>
    /\ recovery_frame

\* SignSession::new on the new node in a signing session for the key that
\* follows the recovery: the handler passes the email of the request.
SignSession_new ==
    /\ rec # <<>>
    /\ rec.kind # "Sr25519"
    /\ target.pc = "done"
    /\ ~loaded.attempted
    /\ loaded' = [attempted |-> TRUE, key |-> Keystore_get_key_with_email(files[NewNode])]
    /\ UNCHANGED <<rec, files, key_info, orch, helper, p2p, packages, target, outbox>>
    /\ recovery_frame

RecoveryNodeIds == 0..(KeyParties + 1)

RecoveryNext ==
    \/ orchestrate_publish
    \/ \E j \in RecoveryNodeIds : handle_Helper(j)
    \/ orchestrate_join
    \/ \E j \in RecoveryNodeIds : \E rij \in [1..keygen_THRESHOLD -> Randoms] :
           send_recovery_package(j, rij)
    \/ \E j \in RecoveryNodeIds : deliver_recovery_package(j)
    \/ orchestrate_request
    \/ \E decrypt_ok, io_ok, overflow_checks \in BOOLEAN :
           process_rec_package(decrypt_ok, io_ok, overflow_checks)
    \/ \E decrypt_ok, io_ok, overflow_checks \in BOOLEAN :
           handle_Target(decrypt_ok, io_ok, overflow_checks)
    \/ orchestrate_validate
    \/ \E n \in RecoveryNodeIds : UpdatePaillierKeysCommand_execute_message(n)
    \/ \E n \in RecoveryNodeIds : UpdateKeyInfoCommand_execute_message(n)
    \/ SignSession_new

InitRecovery == CollectIdle /\ SessionIdle /\ AuthIdle /\ RecoveryInit /\ GuardIdle /\ StoreIdle /\ KeygenIdle /\ Phase0Idle /\ DispatchIdle /\ EjectIdle /\ KeyfmtIdle /\ ReplayIdle /\ JoinIdle /\ WaitIdle /\ KeyInfoIdle
SpecRecovery == InitRecovery /\ [][RecoveryNext]_vars

\* ------------------------------------------------------ recovery: claims
\* The new node answered the session with a validation failure.
ValidationFailed ==
    /\ target.pc = "done"
    /\ target.response.tag = "ValidationError"
    /\ target.response.msg # not_saved

\* C11: a validation failure in a recovery session yields an Error result
\* with a reason and leaves the persistent state alone: no keyshare file is
\* written or modified and no key info is updated on any node.
C11_ValidationFailureMutatesNothing ==
    ValidationFailed =>
        /\ target.response.msg # ""
        /\ files = files_before(rec)
        /\ \A n \in DOMAIN key_info : key_info[n] = keygen_key_info(rec)

\* C38: the orchestrator returns success, or publishes a command to a node,
\* after the new node's reply only when the reply is a validated result of
\* the kind of the key (ECDSA for an ECDSA key, EDDSA for the others).
C38_UpdatesOnlyAfterValidation ==
    [][(orch = "requested" /\ (orch' = "completed" \/ outbox' # outbox))
          => RecoveryValidationResult_from_slice(target.response) =
                (IF rec.kind = "ECDSA" THEN "ECDSA" ELSE "EDDSA")]_vars

\* The new node wrote a keyshare file in this step.
TargetSaves == files'[NewNode] # files[NewNode]

\* The helper packages the new node is about to process agree on a field.
PackagesAgreeOn(field) ==
    \A a, b \in packages : a.message[field] = b.message[field]

\* C12: the new node persists a recovered keyshare only if every helper
\* package carries the same VSS vector, public-key vector and Paillier-key
\* vector, and the sum x_r of the partial secrets satisfies
\* g^{x_r} = the sum over j of the point commitment at r of vss_j.
C12_SavedOnlyIfConsistent ==
    [][TargetSaves =>
        /\ PackagesAgreeOn("vss_vec")
        /\ PackagesAgreeOn("public_key_vec")
        /\ PackagesAgreeOn("paillier_key_vec")
        /\ LET pkgs == sorted_by_sender_id(packages)
               x_r == scalar_sum([i \in 1..Len(pkgs) |-> pkgs[i].partial_secret])
           IN  point_mul(Generator, x_r)
                   = point_commitment_sum(pkgs[1].vss_vec, rec.recovery_index)]_vars

\* An ECDSA recovery run by the orchestrator ended with the keyshare of the
\* lost index on the new node.
C12_Witness ==
    /\ rec # <<>>
    /\ rec.entry = "orchestrate"
    /\ rec.kind = "ECDSA"
    /\ target.pc = "done"
    /\ files[NewNode] # NoFiles
    /\ files[NewNode].legacy[1].party_index = rec.recovery_index
    /\ files[NewNode].legacy[1].x_i = x_i("ECDSA", rec.recovery_index)

\* The keyshares a node holds for the key, in either file.
stored_keyshares(n) ==
    {f[1] : f \in {files[n].account, files[n].legacy} \ {None}}

\* An ECDSA recovery run by orchestrate has returned Ok after a validated
\* reply, and every UpdatePaillierKeysCommand it published has been handled.
EcdsaRecoveryDone ==
    /\ rec # <<>>
    /\ rec.entry = "orchestrate"
    /\ rec.kind = "ECDSA"
    /\ orch = "completed"
    /\ RecoveryValidationResult_from_slice(target.response) = "ECDSA"
    /\ \A m \in outbox : m.cmd # "UpdatePaillierKeysCommand"

\* C13: after the ECDSA recovery of index r, the paillier_key_vec stored by
\* every surviving party holds the new key at position r and is unchanged
\* at every other position (so it keeps its length).
C13_SurvivorsHoldNewKeyAtIndex ==
    EcdsaRecoveryDone =>
        \A n \in Survivors(rec.recovery_index) : \A ks \in stored_keyshares(n) :
            ks.paillier_key_vec =
                [keygen_keyshare("ECDSA", n).paillier_key_vec
                    EXCEPT ![rec.recovery_index] = target.response.ek]

\* The keyshare the new node saved for the recovered index, if it saved one.
saved_by_target ==
    {ks \in stored_keyshares(NewNode) : ks.party_index = rec.recovery_index}

\* C14: after the regeneration, the share the new node saved at the original
\* index is the share it loads in a following signing session for the key.
C14_SavedShareIsLoaded ==
    (/\ rec # <<>>
     /\ rec.kind = "ECDSA"
     /\ RecoveryValidationResult_from_slice(target.response) = "ECDSA"
     /\ loaded.attempted)
        => loaded.key # None /\ loaded.key[1] \in saved_by_target

\* The recovery of the lost share in which every survivor is a helper: for
\* the key of KeyParties = 5 shares and LostIndex = 3, helpers {1, 2, 4, 5}.
AllSurvivorsHelp ==
    /\ rec # <<>>
    /\ rec.entry = "orchestrate"
    /\ rec.recovery_index = LostIndex
    /\ rec.party_nodes = Survivors(LostIndex)
    /\ rec.fault = "none"

\* C15: the recovery of share 3 of a 5-party key with the four helpers
\* {1, 2, 4, 5} completes: no helper gives up, each one that has exchanged
\* its contributions sent one to each co-helper, and once the new node has
\* answered it has validated and saved the share.
C15_FourHelpersComplete ==
    AllSurvivorsHelp =>
        /\ \A j \in DOMAIN helper : helper[j].pc \notin {"failed", "panicked"}
        /\ target.pc = "done" =>
              /\ target.response.tag = "Validated"
              /\ saved_by_target # {}

\* C16: a recovery with recovery_index = 0 for a key kind other than Sr25519
\* is rejected, as a recovery session message and as a
\* ReceiveRecoveryPackages command alike: the new node answers with the
\* rejection, runs no recovery processing and stores nothing.
C16_ZeroIndexRejected ==
    (/\ rec # <<>>
     /\ rec.kind # "Sr25519"
     /\ rec.recovery_index = 0
     /\ target.pc = "done")
        => /\ target.response = handler_err(zero_index_restricted)
           /\ files[NewNode] = NoFiles

\* C30: on recovery the node_pool entry of the old node is replaced by the
\* new node's entry with the same share_index (and kind), and every other
\* entry is unchanged: this holds of the key info of every node that has
\* stored the update.
C30_OldEntryReplaced ==
    \A n \in DOMAIN key_info :
        key_info[n] # keygen_key_info(rec) =>
            LET before == keygen_key_info(rec).node_pool
                after == key_info[n].node_pool
            IN  /\ key_info[n].kind = rec.kind
                /\ Len(after) = Len(before)
                /\ \A i \in 1..Len(before) :
                      IF before[i].node_id = old_node_id(rec)
                      THEN after[i] = [node_id |-> NewNode,
                                       networking_public_key |-> networking_public_key_of(NewNode),
                                       kind |-> before[i].kind,
                                       share_index |-> before[i].share_index]
                      ELSE after[i] = before[i]

C30_Witness ==
    /\ rec # <<>>
    /\ rec.recovery_index = LostIndex
    /\ \E n \in DOMAIN key_info : n # NewNode /\ key_info[n] # keygen_key_info(rec)
    /\ key_info[NewNode] # keygen_key_info(rec)

\* ==================================================================== Part 5
\* The guard on Paillier moduli of full-size factors. A modulus here is the
\* sequence of its prime factors: the product itself is beyond the integers
\* of the checker.

\* Primes q of a modulus 65537 * q: two below 2^16 (65521 is the largest
\* prime below 2^16) and four above it.
PrimeChoices == {3, 65521, 65539, 65551, 1000003, 2147483647}
crafted_key(q) == <<65537, q>>
\* A key whose factors are both large primes.
honest_key == <<1000003, 2147483647>>
\* Paillier::keypair().keys() of the node installing a recovered share.
fresh_keypair == <<65539, 65543>>

\* num % BigInt::from(i) == BigInt::zero(): a prime i divides a product
\* exactly when it divides one of the factors.
rem_is_zero(num, i) == \E k \in 1..Len(num) : num[k] % i = 0

\* check_for_small_primes on a modulus given by its factors: TRUE for Ok(()).
check_for_small_primes_of_product(num) == ~(\E i \in get_primes : rem_is_zero(num, i))

Sites == {"keygen-commit", "recovery-install", "paillier-key-update"}

\* The keys a node is handed: one per party, the one of party `at` crafted.
Offers ==
    {[site |-> s, at |-> at, recovery_index |-> r,
      keys |-> [i \in 1..SessionParties |-> IF i = at THEN crafted_key(q) ELSE honest_key]] :
        s \in Sites, at \in 1..SessionParties, r \in 1..SessionParties, q \in PrimeChoices}

GuardInit ==
    /\ offer \in {o \in Offers : o.site # "recovery-install" => o.recovery_index = 1}
    /\ offer_pc = "received"
    /\ held = None

guard_frame == UNCHANGED <<offer, collect_vars, session_vars, auth_vars, recovery_vars, store_vars, eddsa_vars, phase0_vars, dispatch_vars, eject_vars, keyfmt_vars, replay_vars, join_vars, wait_vars, keyinfo_vars>>

\* KeygenClient::new: the commits of round 1 are checked, then the keygen
\* goes on with their keys, which end in the keyshare's paillier_key_vec.
keygen_commit ==
    /\ offer_pc = "received"
    /\ offer.site = "keygen-commit"
    /\ IF \A i \in 1..Len(offer.keys) : check_for_small_primes_of_product(offer.keys[i])
       THEN offer_pc' = "accepted" /\ held' = Some(offer.keys)
       ELSE offer_pc' = "rejected" /\ held' = None
    /\ guard_frame

\* validate_ecdsa_specific_recovery_package_items on the vectors of the
\* helpers' packages: they must match, the node's own entry is replaced by
\* a fresh key, and the vector is saved with the recovered share.
recovery_install ==
    /\ offer_pc = "received"
    /\ offer.site = "recovery-install"
    /\ LET paillier_key_vecs == [h \in 1..Helpers |-> offer.keys]
           items == IF ~all_matching(paillier_key_vecs) THEN None
                    ELSE replace_elem_in_vec(paillier_key_vecs[1], offer.recovery_index - 1, fresh_keypair)
       IN  /\ held' = items
           /\ offer_pc' = IF is_some(items) THEN "accepted" ELSE "rejected"
    /\ guard_frame

\* UpdatePaillierKeysCommand::execute_message on a node that holds the
\* keyshare: every key of new_eks is checked, then the vector is saved.
paillier_key_update ==
    /\ offer_pc = "received"
    /\ offer.site = "paillier-key-update"
    /\ IF \A i \in 1..Len(offer.keys) : check_for_small_primes_of_product(offer.keys[i])
       THEN offer_pc' = "accepted" /\ held' = Some(offer.keys)
       ELSE offer_pc' = "rejected" /\ held' = None
    /\ guard_frame

GuardNext ==
    \/ keygen_commit
    \/ recovery_install
    \/ paillier_key_update

InitGuard == CollectIdle /\ SessionIdle /\ AuthIdle /\ RecoveryIdle /\ GuardInit /\ StoreIdle /\ KeygenIdle /\ Phase0Idle /\ DispatchIdle /\ EjectIdle /\ KeyfmtIdle /\ ReplayIdle /\ JoinIdle /\ WaitIdle /\ KeyInfoIdle
SpecGuard == InitGuard /\ [][GuardNext]_vars

\* ------------------------------------------------------------------ claims
\* C20: a Paillier key whose modulus is 65537 * q, q a prime, is rejected by
\* the small-prime guard before any use, on each of the three paths
\* (keygen commit, installation of a recovered share, Paillier key update):
\* once the handler has run, the crafted key is not among the keys the node
\* goes on with.
C20_CraftedKeyRejected ==
    offer_pc \notin {"off", "received"} =>
        \/ held = None
        \/ \A i \in 1..Len(unwrap(held)) : unwrap(held)[i] # offer.keys[offer.at]

\* ==================================================================== Part 6
\* Workers of two sessions for one key id, each saving its keyshare with
\* FileSystem::add_keyfile_with_email to the same path.  Every keygen
\* session runs in a thread of its own, so the calls interleave.

\* Workers that write the file.
Writers == 2
WriteOptsValues == {"CreateNewOnly", "Modify"}
\* Content of a keyshare file left by an earlier keygen.
EarlierContent == 0
\* Content of a file that fs::write created or truncated and then failed
\* to fill.
TruncatedContent == -1

StoreInit ==
    /\ keyfile \in {None, Some(EarlierContent)}
    /\ writer \in [1..Writers -> [pc : {"called"}, write_access : WriteOptsValues]]

store_frame == UNCHANGED <<collect_vars, session_vars, auth_vars, recovery_vars, guard_vars, eddsa_vars, phase0_vars, dispatch_vars, eject_vars, keyfmt_vars, replay_vars, join_vars, wait_vars, keyinfo_vars>>

\* add_keyfile_with_email up to fs::write: the bail! of CreateNewOnly when
\* filepath.exists().
add_keyfile_with_email_check(w) ==
    /\ w \in DOMAIN writer
    /\ writer[w].pc = "called"
    /\ writer' = [writer EXCEPT ![w].pc =
                     IF writer[w].write_access = "CreateNewOnly" /\ is_some(keyfile)
                     THEN "bailed" ELSE "writing"]
    /\ UNCHANGED keyfile
    /\ store_frame

\* fs::write(filepath, content): creates the file or truncates it, then
\* writes the content.  On an Err the file is as it was (it could not be
\* opened) or is left truncated.
add_keyfile_with_email_write(w, io_ok, opened) ==
    /\ w \in DOMAIN writer
    /\ writer[w].pc = "writing"
    /\ IF io_ok
       THEN /\ keyfile' = Some(w)
            /\ writer' = [writer EXCEPT ![w].pc = "ok"]
       ELSE /\ keyfile' = IF opened THEN Some(TruncatedContent) ELSE keyfile
            /\ writer' = [writer EXCEPT ![w].pc = "err"]
    /\ store_frame

WriterIds == 1..(Writers + 1)

StoreNext ==
    \/ \E w \in WriterIds : add_keyfile_with_email_check(w)
    \/ \E w \in WriterIds : \E io_ok, opened \in BOOLEAN : add_keyfile_with_email_write(w, io_ok, opened)

InitStore == CollectIdle /\ SessionIdle /\ AuthIdle /\ RecoveryIdle /\ GuardIdle /\ StoreInit /\ KeygenIdle /\ Phase0Idle /\ DispatchIdle /\ EjectIdle /\ KeyfmtIdle /\ ReplayIdle /\ JoinIdle /\ WaitIdle /\ KeyInfoIdle
SpecStore == InitStore /\ [][StoreNext]_vars

\* ------------------------------------------------------------------ claims
\* The step is the fs::write of a worker that was called with CreateNewOnly.
CreateNewOnlyWrites ==
    \E w \in DOMAIN writer :
        /\ writer[w].write_access = "CreateNewOnly"
        /\ writer[w].pc = "writing"
        /\ writer'[w].pc # "writing"

\* C27: a CreateNewOnly write fails if the file exists, also when two
\* sessions for the same key id write concurrently: a file that exists is
\* never changed by the write of a CreateNewOnly call.
C27_CreateNewOnlyNeverOverwrites ==
    [][(CreateNewOnlyWrites /\ is_some(keyfile)) => keyfile' = keyfile]_vars

\* ==================================================================== Part 7
\* EdDSA key generation among honest parties: create_shared_key of each
\* party's worker and the saving of the keyshare, on the scaled-down curve.

\* party_count of the session.
EdDSAParties == 3
\* all_party_indices of the join response, sorted.
all_party_indices == [i \in 1..EdDSAParties |-> i]
other_party_indices(party_index) == SelectSeq(all_party_indices, LAMBDA x : x # party_index)

BroadcastRounds == {"Commit", "Decommit", "VSS", "Result"}
KeyGenAllRounds == BroadcastRounds \cup {"ShareSecret"}

\* Keys::phase1_create: the secret u_i and the public key y_i = u_i * G.
u_i(party_index) == kg_poly[party_index][1]
y_i(party_index) == point_mul(Generator, u_i(party_index))
\* The blinding factor phase1_broadcast draws.
blind_factor(party_index) == 40 + party_index

\* HashCommitment::create_commitment_with_user_defined_randomness
create_commitment(y, blind) == [hash_of |-> <<y, blind>>]

\* encryption_key_for_aes: the point other_public * local_secret.
encryption_key_for_aes(other_public, local_secret) == point_mul(other_public, local_secret)
aes_encrypt(plaintext, key) == [key |-> key, plaintext |-> plaintext]
aes_decrypt(ciphertext, key) == IF ciphertext.key = key THEN Some(ciphertext.plaintext) ELSE None

RECURSIVE point_sum(_)
point_sum(seq) == IF Len(seq) = 1 THEN seq[1] ELSE point_add(Head(seq), point_sum(Tail(seq)))

\* collect_messages of a broadcast round, once every party has published:
\* the messages in the order of the sender ids.
collected(round) == [i \in 1..EdDSAParties |-> unwrap(kg_pub[round][all_party_indices[i]])]
all_published(round, senders) == \A k \in 1..Len(senders) : is_some(kg_pub[round][senders[k]])

\* collect_messages_p2p of the receiver: the messages sent to it by the
\* others, in the order of the sender ids.
collected_p2p(party_index) == [k \in 1..(EdDSAParties - 1) |-> unwrap(kg_pub["ShareSecret"][other_party_indices(party_index)[k]])[party_index]]

\* Keys::phase1_verify_com_phase2_distribute: every decommitment opens its
\* commitment, then VerifiableSS::share_at_indices of u_i.
phase1_verify_com_phase2_distribute(party_index, blindings, y_vec, commitments) ==
    IF \A i \in 1..Len(y_vec) : create_commitment(y_vec[i], blindings[i]) = commitments[i]
    THEN Some([vss |-> VerifiableSS(kg_poly[party_index]),
               secret_shares |-> [i \in 1..EdDSAParties |->
                                     evaluate(kg_poly[party_index], all_party_indices[i])]])
    ELSE None

\* exchange_secret_shares, the outgoing part: one ciphertext per other
\* party, keyed by the party it is for.
outgoing_messages(party_index, y_vec, secret_shares) ==
    [q \in {all_party_indices[i] : i \in 1..EdDSAParties} \ {party_index} |->
        aes_encrypt(secret_shares[q], encryption_key_for_aes(y_vec[q], u_i(party_index)))]

\* exchange_secret_shares, the incoming part: Option of party_shares.
party_shares_of(party_index, y_vec, secret_shares, msg_vec) ==
    LET place(q) == CHOOSE k \in 1..(EdDSAParties - 1) : other_party_indices(party_index)[k] = q
        plain(q) == aes_decrypt(msg_vec[place(q)], encryption_key_for_aes(y_vec[q], u_i(party_index)))
    IN  IF \E q \in 1..EdDSAParties : q # party_index /\ plain(q) = None
        THEN None
        ELSE Some([q \in 1..EdDSAParties |->
                      IF q = party_index THEN secret_shares[q] ELSE unwrap(plain(q))])

\* A construction of the keypair that leaves the party's own y_i out of y.
phase2_verify_vss_construct_keypair_of_others(y_vec, secret_shares_vec, vss_vec, index) ==
    Some([y |-> point_sum([i \in 1..Len(y_vec) |-> IF i = index THEN 1 ELSE y_vec[i]]),
          x_i |-> scalar_sum(secret_shares_vec)])

\* Keys::phase2_verify_vss_construct_keypair: every share is validated
\* against its sender's commitments, whose first one must be the sender's
\* y_i; y is the sum of y_vec and x_i the sum of the shares.
phase2_verify_vss_construct_keypair(y_vec, secret_shares_vec, vss_vec, index) ==
    IF \A i \in 1..Len(y_vec) :
          /\ point_mul(Generator, secret_shares_vec[i]) = get_point_commitment(vss_vec[i], index)
          /\ vss_vec[i].commitments[1] = y_vec[i]
    THEN Some([y |-> point_sum(y_vec), x_i |-> scalar_sum(secret_shares_vec)])
    ELSE None

\* storage::EDDSA
EDDSA(shared_key, party_index, vss_vec) == [x_i |-> shared_key.x_i, y_sum |-> shared_key.y, party_index |-> party_index, vss_scheme_vec |-> vss_vec, threshold |-> keygen_THRESHOLD]

KeygenInit ==
    /\ kg_poly \in [1..EdDSAParties -> {Polynomials[1], Polynomials[2]}]
    /\ kg_pub = [round \in KeyGenAllRounds |-> [q \in 1..EdDSAParties |-> None]]
    /\ kg_party = [q \in 1..EdDSAParties |->
                      [pc |-> "joined", y_vec |-> <<>>, secret_shares |-> <<>>,
                       party_shares |-> <<>>, keyshare |-> None]]

keygen_frame == UNCHANGED <<collect_vars, session_vars, auth_vars, recovery_vars, guard_vars, store_vars, phase0_vars, dispatch_vars, eject_vars, keyfmt_vars, replay_vars, join_vars, wait_vars, keyinfo_vars>>

publish(round, party_index, message) == kg_pub' = [kg_pub EXCEPT ![round][party_index] = Some(message)]
goto(party_index, r) == kg_party' = [kg_party EXCEPT ![party_index] = r]

\* create_shared_key up to the broadcast of the commitment to y_i.
exchange_commitments_to_y_i(p) ==
    /\ p \in DOMAIN kg_party
    /\ kg_party[p].pc = "joined"
    /\ publish("Commit", p, create_commitment(y_i(p), blind_factor(p)))
    /\ goto(p, [kg_party[p] EXCEPT !.pc = "Commit"])
    /\ UNCHANGED kg_poly
    /\ keygen_frame

\* From the collection of the commitments to the broadcast of the
\* decommitment.
exchange_decommitments(p) ==
    /\ p \in DOMAIN kg_party
    /\ kg_party[p].pc = "Commit"
    /\ all_published("Commit", all_party_indices)
    /\ publish("Decommit", p, [blind |-> blind_factor(p), y_i |-> y_i(p)])
    /\ goto(p, [kg_party[p] EXCEPT !.pc = "Decommit"])
    /\ UNCHANGED kg_poly
    /\ keygen_frame

\* From the collection of the decommitments to the sending of the
\* encrypted shares.
exchange_secret_shares(p) ==
    /\ p \in DOMAIN kg_party
    /\ kg_party[p].pc = "Decommit"
    /\ all_published("Decommit", all_party_indices)
    /\ LET decommitments == collected("Decommit")
           blindings == [i \in 1..EdDSAParties |-> decommitments[i].blind]
           y_vec == [i \in 1..EdDSAParties |-> decommitments[i].y_i]
           distributed == phase1_verify_com_phase2_distribute(p, blindings, y_vec, collected("Commit"))
       IN  IF distributed = None
           THEN /\ goto(p, [kg_party[p] EXCEPT !.pc = "failed"])
                /\ UNCHANGED kg_pub
           ELSE /\ publish("ShareSecret", p,
                           outgoing_messages(p, y_vec, unwrap(distributed).secret_shares))
                /\ goto(p, [kg_party[p] EXCEPT !.pc = "ShareSecret", !.y_vec = y_vec,
                                                !.secret_shares = unwrap(distributed).secret_shares])
    /\ UNCHANGED kg_poly
    /\ keygen_frame

\* From the collection of the shares sent to the party to the broadcast of
\* its VerifiableSS.
exchange_vss(p) ==
    /\ p \in DOMAIN kg_party
    /\ kg_party[p].pc = "ShareSecret"
    /\ all_published("ShareSecret", other_party_indices(p))
    /\ LET party_shares == party_shares_of(p, kg_party[p].y_vec, kg_party[p].secret_shares,
                                           collected_p2p(p))
       IN  IF party_shares = None
           THEN /\ goto(p, [kg_party[p] EXCEPT !.pc = "failed"])
                /\ UNCHANGED kg_pub
           ELSE /\ publish("VSS", p, VerifiableSS(kg_poly[p]))
                /\ goto(p, [kg_party[p] EXCEPT !.pc = "VSS", !.party_shares = unwrap(party_shares)])
    /\ UNCHANGED kg_poly
    /\ keygen_frame

\* keygen_session_inner from the collection of the VerifiableSS: the shared
\* key is constructed, the keyshare is saved and the result is published.
publish_result(p, io_ok) ==
    /\ p \in DOMAIN kg_party
    /\ kg_party[p].pc = "VSS"
    /\ all_published("VSS", all_party_indices)
    /\ LET vss_vec == collected("VSS")
           shared_key == phase2_verify_vss_construct_keypair(kg_party[p].y_vec,
                             kg_party[p].party_shares, vss_vec, p)
       IN  IF shared_key = None \/ ~io_ok
           THEN /\ goto(p, [kg_party[p] EXCEPT !.pc = "failed"])
                /\ UNCHANGED kg_pub
           ELSE /\ publish("Result", p, [y_sum |-> unwrap(shared_key).y])
                /\ goto(p, [kg_party[p] EXCEPT !.pc = "Result",
                                !.keyshare = Some(EDDSA(unwrap(shared_key), p, vss_vec))])
    /\ UNCHANGED kg_poly
    /\ keygen_frame

\* The collection of the results returns and the worker ends.
keygen_session_done(p) ==
    /\ p \in DOMAIN kg_party
    /\ kg_party[p].pc = "Result"
    /\ all_published("Result", all_party_indices)
    /\ goto(p, [kg_party[p] EXCEPT !.pc = "done"])
    /\ UNCHANGED <<kg_poly, kg_pub>>
    /\ keygen_frame

\* A collecting call of the worker times out: the worker ends with the Err.
keygen_collect_timeout(p) ==
    /\ p \in DOMAIN kg_party
    /\ kg_party[p].pc \in KeyGenAllRounds
    /\ goto(p, [kg_party[p] EXCEPT !.pc = "failed"])
    /\ UNCHANGED <<kg_poly, kg_pub>>
    /\ keygen_frame

KeygenPartyIds == 1..(EdDSAParties + 1)

KeygenNext ==
    \/ \E p \in KeygenPartyIds : exchange_commitments_to_y_i(p)
    \/ \E p \in KeygenPartyIds : exchange_decommitments(p)
    \/ \E p \in KeygenPartyIds : exchange_secret_shares(p)
    \/ \E p \in KeygenPartyIds : exchange_vss(p)
    \/ \E p \in KeygenPartyIds : \E io_ok \in BOOLEAN : publish_result(p, io_ok)
    \/ \E p \in KeygenPartyIds : keygen_session_done(p)
    \/ \E p \in KeygenPartyIds : keygen_collect_timeout(p)

InitKeygen == CollectIdle /\ SessionIdle /\ AuthIdle /\ RecoveryIdle /\ GuardIdle /\ StoreIdle /\ KeygenInit /\ Phase0Idle /\ DispatchIdle /\ EjectIdle /\ KeyfmtIdle /\ ReplayIdle /\ JoinIdle /\ WaitIdle /\ KeyInfoIdle
SpecKeygen == InitKeygen /\ [][KeygenNext]_vars

\* ------------------------------------------------------------------ claims
\* C28: in a keygen session among honest parties every persisted keyshare
\* carries the same y_sum, the sum of all the parties' public keys y_i.
C28_SameYSum ==
    \A p, q \in DOMAIN kg_party :
        (is_some(kg_party[p].keyshare) /\ is_some(kg_party[q].keyshare)) =>
            /\ unwrap(kg_party[p].keyshare).y_sum = unwrap(kg_party[q].keyshare).y_sum
            /\ unwrap(kg_party[p].keyshare).y_sum = point_mul(Generator, scalar_sum([i \in 1..EdDSAParties |-> kg_poly[i][1]]))

C28_Witness ==
    /\ kg_party # <<>>
    /\ \A p \in DOMAIN kg_party : is_some(kg_party[p].keyshare)
    /\ \E p, q \in DOMAIN kg_party : kg_poly[p] # kg_poly[q]

\* ==================================================================== Part 8
\* Phase 0 of an ECDSA signing session: the signers orchestrate joined
\* exchange their Phase0Identity and each builds its signers vector.

\* party_nodes.len() of the SigningCommand: orchestrate refuses fewer than
\* three nodes and numbers the joins 0..party_count.
MaxSigners == 4
SignerCounts == THRESHOLD..MaxSigners
\* keyshare.party_index of the signers, by id_in_session (keygen numbers the
\* shareholders from 1).
HolderChoices == {<<1, 2, 3, 4, 5>>, <<4, 2, 5, 1, 3>>}

Phase0Identity(id_in_session, shareholder_id) == [id_in_session |-> id_in_session, shareholder_id |-> shareholder_id]
Phase0Identity_get_sender_id(message) == message.id_in_session

\* BTreeMap::values: the values in ascending order of the keys.
RECURSIVE btree_values(_)
btree_values(m) ==
    IF DOMAIN m = {} THEN <<>>
    ELSE LET least == CHOOSE k \in DOMAIN m : \A j \in DOMAIN m : k <= j
         IN  <<m[least]>> \o btree_values([j \in DOMAIN m \ {least} |-> m[j]])

\* .map(|p0i| p0i.shareholder_id - 1)
to_signers(messages) == [i \in 1..Len(messages) |-> messages[i].shareholder_id - 1]

Phase0Init ==
    /\ \E n \in SignerCounts : \E h \in HolderChoices : p0_holder = [i \in 0..(n - 1) |-> h[i + 1]]
    /\ p0_net = {}
    /\ p0_signer = [i \in DOMAIN p0_holder |-> [pc |-> "started", map |-> <<>>, signers |-> None]]

phase0_frame == UNCHANGED <<collect_vars, session_vars, auth_vars, recovery_vars, guard_vars, store_vars, eddsa_vars, dispatch_vars, eject_vars, keyfmt_vars, replay_vars, join_vars, wait_vars, keyinfo_vars>>

\* phase0__exchange_party_ids up to the collecting call: the identity is
\* published on the subject every signer of the session subscribed to.
phase0_publish(p) ==
    /\ p \in DOMAIN p0_signer
    /\ p0_signer[p].pc = "started"
    /\ p0_net' = p0_net \cup {Phase0Identity(p, p0_holder[p])}
    /\ p0_signer' = [p0_signer EXCEPT ![p].pc = "collecting"]
    /\ UNCHANGED p0_holder
    /\ phase0_frame

\* One turn of the loop of collect_messages(sub, THRESHOLD, None): the next
\* message of the signer's subscription, which is any published message it
\* has not taken yet (every signer publishes once, so no sender id comes
\* twice), and the return once the map holds THRESHOLD entries.
phase0_collect(p, m) ==
    /\ p \in DOMAIN p0_signer
    /\ p0_signer[p].pc = "collecting"
    /\ m \in p0_net
    /\ Phase0Identity_get_sender_id(m) \notin DOMAIN p0_signer[p].map
    /\ LET sender_id == Phase0Identity_get_sender_id(m)
           so_far == p0_signer[p].map
           grown == [k \in DOMAIN so_far \cup {sender_id} |->
                        IF k = sender_id THEN m ELSE so_far[k]]
       IN  IF Cardinality(DOMAIN grown) < THRESHOLD
           THEN p0_signer' = [p0_signer EXCEPT ![p].map = grown]
           ELSE p0_signer' = [p0_signer EXCEPT ![p].map = <<>>, ![p].pc = "phase1",
                                   ![p].signers = Some(to_signers(btree_values(grown)))]
    /\ UNCHANGED <<p0_holder, p0_net>>
    /\ phase0_frame

\* get_next_item times out: the collecting call returns Err and `?` ends
\* the worker.
phase0_timeout(p) ==
    /\ p \in DOMAIN p0_signer
    /\ p0_signer[p].pc = "collecting"
    /\ p0_signer' = [p0_signer EXCEPT ![p].pc = "failed", ![p].map = <<>>]
    /\ UNCHANGED <<p0_holder, p0_net>>
    /\ phase0_frame

Phase0Ids == 0..MaxSigners
Phase0Messages == {Phase0Identity(p, h[p + 1]) : p \in 0..(MaxSigners - 1), h \in HolderChoices}

Phase0Next ==
    \/ \E p \in Phase0Ids : phase0_publish(p)
    \/ \E p \in Phase0Ids : \E m \in Phase0Messages : phase0_collect(p, m)
    \/ \E p \in Phase0Ids : phase0_timeout(p)

InitPhase0 == CollectIdle /\ SessionIdle /\ AuthIdle /\ RecoveryIdle /\ GuardIdle /\ StoreIdle /\ KeygenIdle /\ Phase0Init /\ DispatchIdle /\ EjectIdle /\ KeyfmtIdle /\ ReplayIdle /\ JoinIdle /\ WaitIdle /\ KeyInfoIdle
SpecPhase0 == InitPhase0 /\ [][Phase0Next]_vars

\* ------------------------------------------------------------------ claims
\* The 0-based shareholder ids of all the signers of the session, in the
\* order of id_in_session.
session_signers_vec == [i \in 1..Cardinality(DOMAIN p0_holder) |-> p0_holder[i - 1] - 1]

\* C26: after phase 0 every signer of the session holds the same signers
\* vector: the 0-based shareholder ids of the session's signers in the order
\* of id_in_session.
C26_SignersAgree ==
    \A p \in DOMAIN p0_signer :
        is_some(p0_signer[p].signers) => unwrap(p0_signer[p].signers) = session_signers_vec

\* ==================================================================== Part 9
\* The dispatcher: message_loop of the server node, its subscription, the
\* routing of handle_message, the threads the handlers spawn and the
\* reconnection of get_nats_connection.

MaxPublished == 2
MaxOutages == 1
\* get_nats_connection: max_retries
max_retries == 5

\* The node and another node of the network.
node_id == "n1"
other_node_id == "n2"

\* Subjects are sequences of the tokens the dots separate.
new_subject(kind, to) == <<"network", "gridlock", "nodes", kind, "new", to>>
\* recovery::orchestrate: network.gridlock.nodes.async.Message.new.<node_id>
async_Message_subject(to) == <<"network", "gridlock", "nodes", "async", "Message", "new", to>>
SubjectKinds == {"keyGen", "keySign", "Message", "Status"}
Subjects == {new_subject(k, node_id) : k \in SubjectKinds} \cup {new_subject("Message", other_node_id), async_Message_subject(node_id)}

\* subscribe: network.gridlock.nodes.*.new.<node_id>
subscription_subject == <<"network", "gridlock", "nodes", "*", "new", node_id>>

\* The server's matching of a subject with a subscription: token by token,
\* `*` standing for exactly one token.
subject_matches(subject, pattern) ==
    /\ Len(subject) = Len(pattern)
    /\ \A i \in 1..Len(pattern) : pattern[i] = "*" \/ pattern[i] = subject[i]

\* message.subject.starts_with("network.gridlock.nodes.<kind>.")
starts_with(subject, kind) ==
    /\ Len(subject) > 4
    /\ SubSeq(subject, 1, 4) = <<"network", "gridlock", "nodes", kind>>

\* What the sender put in the message: a request the handler accepts, bytes
\* that are no JSON of the request, or a request whose encrypted_signing_key
\* decodes to fewer bytes than a nonce.
Payloads == {"valid", "unparseable", "short_signing_key"}

\* e2e_decrypt: &encrypted_data[..nonce_size] panics on a shorter payload.
e2e_decrypt_outcome(payload) == IF payload = "short_signing_key" THEN "panic" ELSE "ok"

\* handle_message: the handler the subject selects and what that handler
\* does on the main thread: "panic", "return" (an error is logged) or the
\* kind of thread it spawns.
handle_message(message) ==
    IF starts_with(message.subject, "keyGen")
    THEN [as |-> "keygen", does |-> IF message.payload = "valid" THEN "keygen" ELSE "return"]
    ELSE IF starts_with(message.subject, "keySign")
    THEN [as |-> "sign",
          does |-> IF message.payload = "unparseable" THEN "return"
                   ELSE IF e2e_decrypt_outcome(message.payload) = "ok" THEN "sign"
                   ELSE IF e2e_decrypt_outcome(message.payload) = "err" THEN "return"
                   ELSE "panic"]
    ELSE IF starts_with(message.subject, "Message")
    THEN [as |-> "command", does |-> "command"]
    ELSE [as |-> "unrecognized", does |-> "return"]

\* The process ends: its threads end with it.
kill_all(ts) == [w \in DOMAIN ts |-> IF ts[w].pc \in {"wait_start", "running"} THEN [ts[w] EXCEPT !.pc = "killed"] ELSE ts[w]]

alive == loop \in {"waiting", "reconnecting"}

DispatchInit ==
    /\ loop = "waiting"
    /\ NATS_CONNECTED = TRUE
    /\ server_up = TRUE
    /\ subscribed = TRUE
    /\ pending = <<>>
    /\ pub_count = 0
    /\ lost = {}
    /\ handled = <<>>
    /\ threads = <<>>
    /\ retry = [retry_count |-> 0, wait_time |-> 1, attempts |-> 0, sleeps |-> <<>>, gave_up |-> FALSE]
    /\ outages = 0

dispatch_frame == UNCHANGED <<collect_vars, session_vars, auth_vars, recovery_vars, guard_vars, store_vars, eddsa_vars, phase0_vars, eject_vars, keyfmt_vars, replay_vars, join_vars, wait_vars, keyinfo_vars>>

\* A client or an orchestrator publishes a message: the server delivers it
\* to the node's subscription when the subject matches.
bus_publish(subject, payload) ==
    /\ alive
    /\ pub_count < MaxPublished
    /\ server_up
    /\ subscribed
    /\ pub_count' = pub_count + 1
    /\ IF subject_matches(subject, subscription_subject)
       THEN /\ pending' = Append(pending, [subject |-> subject, payload |-> payload])
            /\ UNCHANGED lost
       ELSE /\ lost' = lost \cup {subject}
            /\ UNCHANGED pending
    /\ UNCHANGED <<loop, NATS_CONNECTED, server_up, subscribed, handled, threads, retry, outages>>
    /\ dispatch_frame

\* message_loop, Ok(msg) of next_timeout: handle_message on the main thread.
message_loop_handle ==
    /\ loop = "waiting"
    /\ pending # <<>>
    /\ LET message == Head(pending)
           route == handle_message(message)
       IN  /\ handled' = Append(handled, [subject |-> message.subject, as |-> route.as])
           /\ pending' = Tail(pending)
           /\ CASE route.does = "panic" ->
                     /\ loop' = "panicked"
                     /\ threads' = kill_all(threads)
                [] route.does = "return" ->
                     UNCHANGED <<loop, threads>>
                [] OTHER ->
                     /\ threads' = Append(threads, [kind |-> route.does, pc |-> IF route.does = "command" THEN "running" ELSE "wait_start"])
                     /\ UNCHANGED loop
    /\ UNCHANGED <<NATS_CONNECTED, server_up, subscribed, pub_count, lost, retry, outages>>
    /\ dispatch_frame

\* message_loop, Err of next_timeout while NATS_CONNECTED is false:
\* try_reconnect enters get_nats_connection.
try_reconnect ==
    /\ loop = "waiting"
    /\ pending = <<>>
    /\ ~NATS_CONNECTED
    /\ loop' = "reconnecting"
    /\ retry' = [retry_count |-> 0, wait_time |-> 1, attempts |-> 0, sleeps |-> <<>>, gave_up |-> FALSE]
    /\ UNCHANGED <<NATS_CONNECTED, server_up, subscribed, pending, pub_count, lost, handled, threads, outages>>
    /\ dispatch_frame

\* One turn of the loop of get_nats_connection and, when it returns, the
\* rest of the Err arm of message_loop: subscribe on the new connection
\* (`?` ends message_loop and main exits), or the warning.
get_nats_connection(subscribe_ok) ==
    /\ loop = "reconnecting"
    /\ IF server_up
       THEN /\ NATS_CONNECTED' = TRUE
            /\ retry' = [retry EXCEPT !.attempts = @ + 1]
            /\ IF subscribe_ok
               THEN /\ subscribed' = TRUE
                    /\ loop' = "waiting"
                    /\ UNCHANGED threads
               ELSE /\ loop' = "exited"
                    /\ threads' = kill_all(threads)
                    /\ UNCHANGED subscribed
       ELSE /\ subscribe_ok
            /\ IF retry.retry_count >= max_retries
               THEN /\ retry' = [retry EXCEPT !.attempts = @ + 1, !.gave_up = TRUE]
                    /\ loop' = "waiting"
               ELSE /\ retry' = [retry EXCEPT !.attempts = @ + 1,
                                             !.sleeps = Append(@, retry.wait_time),
                                             !.wait_time = @ * 2,
                                             !.retry_count = @ + 1]
                    /\ UNCHANGED loop
            /\ UNCHANGED <<NATS_CONNECTED, subscribed, threads>>
    /\ UNCHANGED <<server_up, pending, pub_count, lost, handled, outages>>
    /\ dispatch_frame

\* The server goes away: disconnect_callback clears the flag.
server_down ==
    /\ alive
    /\ server_up
    /\ outages < MaxOutages
    /\ outages' = outages + 1
    /\ server_up' = FALSE
    /\ NATS_CONNECTED' = FALSE
    /\ subscribed' = FALSE
    /\ UNCHANGED <<loop, pending, pub_count, lost, handled, threads, retry>>
    /\ dispatch_frame

\* The server is back.
server_back ==
    /\ alive
    /\ ~server_up
    /\ server_up' = TRUE
    /\ UNCHANGED <<loop, NATS_CONNECTED, subscribed, pending, pub_count, lost, handled, threads, retry, outages>>
    /\ dispatch_frame

\* The client library reconnects the connection of `subscription` by
\* itself: reconnect_callback sets the flag.
reconnect_callback ==
    /\ loop = "waiting"
    /\ server_up
    /\ ~NATS_CONNECTED
    /\ NATS_CONNECTED' = TRUE
    /\ subscribed' = TRUE
    /\ UNCHANGED <<loop, server_up, pending, pub_count, lost, handled, threads, retry, outages>>
    /\ dispatch_frame

\* The orchestrator's start message reaches a session worker (the
\* orchestrator publishes it once every party of the session has joined).
session_start(w) ==
    /\ alive
    /\ w \in DOMAIN threads
    /\ threads[w].pc = "wait_start"
    /\ server_up
    /\ threads' = [threads EXCEPT ![w].pc = "running"]
    /\ UNCHANGED <<loop, NATS_CONNECTED, server_up, subscribed, pending, pub_count, lost, handled, retry, outages>>
    /\ dispatch_frame

\* A thread ends: it returns, its collecting call times out, or it panics
\* (the signing worker's wait for the start message is unwrapped after 10 s;
\* the keygen worker's wait for it has no timeout).
thread_ends(w, how) ==
    /\ alive
    /\ w \in DOMAIN threads
    /\ \/ threads[w].pc = "running"
       \/ threads[w].pc = "wait_start" /\ threads[w].kind = "sign" /\ how = "panicked"
    /\ threads' = [threads EXCEPT ![w].pc = how]
    /\ UNCHANGED <<loop, NATS_CONNECTED, server_up, subscribed, pending, pub_count, lost, handled, retry, outages>>
    /\ dispatch_frame

ThreadIds == 1..(MaxPublished + 1)
message_loop_step ==
    \/ message_loop_handle
    \/ try_reconnect
    \/ \E subscribe_ok \in BOOLEAN : get_nats_connection(subscribe_ok)
thread_step(w) == \E how \in {"done", "failed", "panicked"} : thread_ends(w, how)

DispatchNext ==
    \/ \E subject \in Subjects : \E payload \in Payloads : bus_publish(subject, payload)
    \/ message_loop_handle
    \/ try_reconnect
    \/ \E subscribe_ok \in BOOLEAN : get_nats_connection(subscribe_ok)
    \/ server_down
    \/ server_back
    \/ reconnect_callback
    \/ \E w \in ThreadIds : session_start(w)
    \/ \E w \in ThreadIds : \E how \in {"done", "failed", "panicked"} : thread_ends(w, how)

InitDispatch == CollectIdle /\ SessionIdle /\ AuthIdle /\ RecoveryIdle /\ GuardIdle /\ StoreIdle /\ KeygenIdle /\ Phase0Idle /\ DispatchInit /\ EjectIdle /\ KeyfmtIdle /\ ReplayIdle /\ JoinIdle /\ WaitIdle /\ KeyInfoIdle
SpecDispatch == InitDispatch /\ [][DispatchNext]_vars
\* The main thread and the spawned threads are scheduled, and a server that
\* went away comes back.
SpecDispatchFair ==
    /\ InitDispatch
    /\ [][DispatchNext]_vars
    /\ WF_vars(message_loop_step)
    /\ WF_vars(server_back)
    /\ \A w \in ThreadIds : WF_vars(thread_step(w))

\* ------------------------------------------------------------------ claims
\* C22: what goes wrong while one session message is processed stays with
\* that session: the dispatcher keeps waiting for messages and the threads
\* of the other sessions stay as they are.
C22_SessionFailureIsLocal ==
    [][(loop = "waiting" /\ pending # <<>> /\ pending' = Tail(pending)) =>
          (loop' = "waiting" /\ \A w \in DOMAIN threads : threads'[w] = threads[w])]_vars

\* C23: after a bus error the dispatcher is connected and subscribed again
\* and waits for messages, and the sessions that were in flight have ended
\* (a dispatcher that a message made panic is left aside here).
C23_ResumesAfterBusError ==
    (outages > 0) ~>
        \/ loop = "panicked"
        \/ /\ loop = "waiting" /\ NATS_CONNECTED /\ subscribed
           /\ \A w \in DOMAIN threads : threads[w].pc \in {"done", "failed", "panicked"}

\* C24: one run of get_nats_connection makes at most 5 connection attempts,
\* sleeps 1 s, 2 s, 4 s, ... between them, and gives up only after the last
\* one.
C24_AtMostFiveAttempts ==
    /\ retry.attempts <= max_retries
    /\ \A i \in 1..Len(retry.sleeps) : retry.sleeps[i] = 2 ^ (i - 1)
    /\ retry.gave_up => retry.attempts >= max_retries

\* C29: a command pub_count for the node on async.Message.new.<node_id> is
\* delivered to it and handled as a command, as one on Message.new.<node_id>.
C29_AsyncCommandHandled ==
    /\ async_Message_subject(node_id) \notin lost
    /\ new_subject("Message", node_id) \notin lost
    /\ \A i \in 1..Len(handled) :
          handled[i].subject \in {async_Message_subject(node_id), new_subject("Message", node_id)}
              => handled[i].as = "command"

\* =================================================================== Part 10
\* eject: EjectKeysCommand combines the shares the caller supplies with the
\* share the node reads from its own storage.

\* eject.rs: THRESHOLD
eject_THRESHOLD == 3

EjectKinds == {"ECDSA", "EdDSA"}

\* The secret the key's shares were dealt from: the sum of the constant
\* terms of the polynomials of key generation.
root_secret(kind) == scalar_sum([k \in 1..Len(polynomials_of(kind)) |-> polynomials_of(kind)[k][1]])

\* From<ECDSA> / From<EDDSA> for EjectShareInfo: (x_i, party_index)
EjectShareInfo(kind, scalar, index) == [curve |-> IF kind = "ECDSA" THEN "Secp256k1" ELSE "Ed25519", scalar |-> scalar, index |-> index]

\* retrieve_eject_info_from_key_ids: KeyshareAccessor::read_only(key_id)
\* reads the file at Config::get_key_storage_path; a key it cannot read is
\* left out.
retrieve_eject_info_from_key_ids(node) ==
    IF Keystore_get_key(node.files) = None THEN <<>>
    ELSE <<EjectShareInfo(node.kind, unwrap(Keystore_get_key(node.files)), node.index)>>

\* VerifiableSS::lagrange_interpolation_at_zero(points, values)
lagrange_interpolation_at_zero(pts, shares) ==
    scalar_sum([i \in 1..Len(pts) |->
        LET num == scalar_product([j \in 1..Len(pts) |-> IF j # i THEN pts[j] ELSE 1])
            denum == scalar_product([j \in 1..Len(pts) |-> IF j # i THEN scalar_sub(pts[j], pts[i]) ELSE 1])
        IN  scalar_mul(scalar_mul(num, scalar_invert(denum)), shares[i])])

\* reconstruct_key::<C>: None unless there are as many shares of the curve
\* as indices, and THRESHOLD of them.
reconstruct_key(indices, shares) ==
    IF Len(shares) # Len(indices) \/ Len(shares) < eject_THRESHOLD THEN None
    ELSE Some(lagrange_interpolation_at_zero([i \in 1..Len(indices) |-> indices[i] % GroupOrder], shares))

\* reconstruct_key_from_collected_eject_info: Option of the key.
reconstruct_key_from_collected_eject_info(eject_infos) ==
    IF Len(eject_infos) < eject_THRESHOLD THEN None
    ELSE LET of_curve(c) == SelectSeq(eject_infos, LAMBDA x : x.curve = c)
             scalars(c) == [i \in 1..Len(of_curve(c)) |-> of_curve(c)[i].scalar]
             indices == [i \in 1..Len(eject_infos) |-> eject_infos[i].index]
         IN  IF reconstruct_key(indices, scalars("Secp256k1")) # None
             THEN reconstruct_key(indices, scalars("Secp256k1"))
             ELSE reconstruct_key(indices, scalars("Ed25519"))

\* The key is on the node as key generation with an e-mail left it (under
\* the account) or as a node without accounts left it (the legacy path).
EjectInit ==
    /\ \E kind \in EjectKinds : \E index \in 1..KeyParties : \E place \in {"account", "legacy"} :
          ej_node = [kind |-> kind, index |-> index,
                     files |-> [account |-> IF place = "account" THEN Some(x_i(kind, index)) ELSE None,
                                legacy |-> IF place = "legacy" THEN Some(x_i(kind, index)) ELSE None]]
    /\ ej_response = None

eject_frame == UNCHANGED <<collect_vars, session_vars, auth_vars, recovery_vars, guard_vars, store_vars, eddsa_vars, phase0_vars, dispatch_vars, keyfmt_vars, replay_vars, join_vars, wait_vars, keyinfo_vars>>

\* EjectKeysCommand::execute_message for the key: the caller supplies the
\* shares of the nodes in `others`, one set per node.
EjectKeysCommand_execute_message(others) ==
    /\ ej_node # <<>>
    /\ ej_response = None
    /\ others \subseteq (1..KeyParties) \ {ej_node.index}
    /\ LET supplied == [i \in 1..Cardinality(others) |->
                           EjectShareInfo(ej_node.kind, x_i(ej_node.kind, Ascending(others)[i]), Ascending(others)[i])]
           owned_shares == retrieve_eject_info_from_key_ids(ej_node)
           shares == supplied \o owned_shares
       IN  ej_response' = Some([others |-> others, key |-> reconstruct_key_from_collected_eject_info(shares)])
    /\ UNCHANGED ej_node
    /\ eject_frame

EjectNext ==
    \E others \in SUBSET (1..(KeyParties + 1)) : EjectKeysCommand_execute_message(others)

InitEject == CollectIdle /\ SessionIdle /\ AuthIdle /\ RecoveryIdle /\ GuardIdle /\ StoreIdle /\ KeygenIdle /\ Phase0Idle /\ DispatchIdle /\ EjectInit /\ KeyfmtIdle /\ ReplayIdle /\ JoinIdle /\ WaitIdle /\ KeyInfoIdle
SpecEject == InitEject /\ [][EjectNext]_vars

\* ------------------------------------------------------------------ claims
\* C31: when the node's own share and the shares the caller supplied are at
\* least THRESHOLD shares of the key, the response carries the key's root
\* secret.
C31_EjectReturnsRootSecret ==
    (is_some(ej_response) /\ Cardinality(unwrap(ej_response).others) + 1 >= eject_THRESHOLD) =>
        unwrap(ej_response).key = Some(root_secret(ej_node.kind))

\* ======================================================================
\* Part 11.  Keyshare file formats (storage/key_store.rs, wrappers.rs).
\* A keyshare file holds one of seven formats; a load parses it as the
\* first variant of the untagged KeyshareFormat enum that fits and then
\* converts it to the current format of the key type asked for.
\* ======================================================================
KeyshareFormats == <<"ECDSA_V1V2", "ECDSA_V3", "ECDSA_V4", "EdDSA_V1", "EdDSA_V2", "EdDSA_V3", "Sr25519">>
CurrentKeyshareFormat == {"ECDSA_V4", "EdDSA_V3", "Sr25519"}

\* The key type a format belongs to and the curve of its values.
kind_of(format) ==
    IF format \in {"ECDSA_V1V2", "ECDSA_V3", "ECDSA_V4"} THEN "ECDSA"
    ELSE IF format = "Sr25519" THEN "Sr25519" ELSE "EDDSA"
curve_of(format) == IF kind_of(format) = "ECDSA" THEN "Secp256k1" ELSE "Ed25519"

\* The two encodings of a scalar or a point: the wrappers (WScalar, WPoint)
\* write the hexadecimal digits of the number, the curve library writes the
\* curve's name and the value.
WEnc(curve, v) == [hex |-> v, of |-> curve]
CurvEnc(curve, v) == [curve |-> curve, value |-> v]
WVerifiableSS(curve, vss) == [commitments |-> [m \in 1..Len(vss.commitments) |-> WEnc(curve, vss.commitments[m])]]
CurvVerifiableSS(curve, vss) == [commitments |-> [m \in 1..Len(vss.commitments) |-> CurvEnc(curve, vss.commitments[m])]]

\* From<WScalar> / From<WPoint> / From<WVerifiableSS>: the wrapped value in
\* the curve library's type (Scalar::from_bigint reduces modulo the order).
WScalar_into(w) == CurvEnc(w.of, w.hex % GroupOrder)
WPoint_into(w) == CurvEnc(w.of, w.hex)
WVerifiableSS_into(w) == [commitments |-> [m \in 1..Len(w.commitments) |-> WPoint_into(w.commitments[m])]]

\* The file a node of share index i wrote in the given format.
keyfile_of(format, i) ==
    LET kind == kind_of(format)
        c == curve_of(format)
        x == x_i(kind, i)
        vv == vss_scheme_vec(kind)
        y == calculate_y_sum_from_vss_vec(vv)
        wvss == [k \in 1..Len(vv) |-> WVerifiableSS(c, vv[k])]
        cvss == [k \in 1..Len(vv) |-> CurvVerifiableSS(c, vv[k])]
    IN  CASE format = "ECDSA_V1V2" ->
               [party_keys |-> [dk |-> "dk"], shared_keys |-> [y |-> WEnc(c, y), x_i |-> WEnc(c, x)],
                party_id |-> i, vss_scheme_vec |-> wvss, y_sum |-> WEnc(c, y)]
          [] format = "ECDSA_V3" ->
               [threshold |-> keygen_THRESHOLD, y_sum |-> WEnc(c, y), x_i |-> WEnc(c, x),
                party_index |-> i, vss_scheme_vec |-> wvss, paillier_dk |-> "dk"]
          [] format = "ECDSA_V4" ->
               [threshold |-> keygen_THRESHOLD, y_sum |-> CurvEnc(c, y), x_i |-> CurvEnc(c, x),
                party_index |-> i, vss_scheme_vec |-> cvss, paillier_dk |-> "dk"]
          [] format = "EdDSA_V1" ->
               [key |-> [party_index |-> i], threshold |-> keygen_THRESHOLD,
                shared_key |-> [y |-> WEnc(c, y), x_i |-> WEnc(c, x)], vss_scheme_vec |-> wvss]
          [] format = "EdDSA_V2" ->
               [threshold |-> keygen_THRESHOLD, party_index |-> i, x_i |-> WEnc(c, x),
                y_sum |-> WEnc(c, y), vss_scheme_vec |-> wvss]
          [] format = "EdDSA_V3" ->
               [threshold |-> keygen_THRESHOLD, party_index |-> i, x_i |-> CurvEnc(c, x),
                y_sum |-> CurvEnc(c, y), vss_scheme_vec |-> cvss]
          [] OTHER ->
               [secret_key |-> None, threshold |-> keygen_THRESHOLD, party_index |-> i,
                x_i |-> WEnc(c, x), vss_scheme |-> wvss[1]]

\* serde's derived Deserialize for each variant: every field of the struct is
\* in the data (other fields are ignored, except by Sr25519, which denies
\* unknown fields) and every value is in the encoding and of the curve of the
\* field's type.
is_W(v, curve) == DOMAIN v = {"hex", "of"} /\ v.of = curve
is_Curv(v, curve) == DOMAIN v = {"curve", "value"} /\ v.curve = curve
parses_as(format, data) ==
    LET c == curve_of(format) IN
    CASE format = "ECDSA_V1V2" ->
           /\ {"party_keys", "shared_keys", "party_id", "vss_scheme_vec", "y_sum"} \subseteq DOMAIN data
           /\ is_W(data.y_sum, c)
      [] format \in {"ECDSA_V3", "ECDSA_V4"} ->
           /\ {"threshold", "y_sum", "x_i", "party_index", "vss_scheme_vec", "paillier_dk"} \subseteq DOMAIN data
           /\ IF format = "ECDSA_V3" THEN is_W(data.x_i, c) /\ is_W(data.y_sum, c)
              ELSE is_Curv(data.x_i, c) /\ is_Curv(data.y_sum, c)
      [] format = "EdDSA_V1" ->
           /\ {"key", "threshold", "shared_key", "vss_scheme_vec"} \subseteq DOMAIN data
           /\ is_W(data.shared_key.x_i, c)
      [] format \in {"EdDSA_V2", "EdDSA_V3"} ->
           /\ {"threshold", "party_index", "x_i", "y_sum", "vss_scheme_vec"} \subseteq DOMAIN data
           /\ IF format = "EdDSA_V2" THEN is_W(data.x_i, c) /\ is_W(data.y_sum, c)
              ELSE is_Curv(data.x_i, c) /\ is_Curv(data.y_sum, c)
      [] OTHER ->
           /\ DOMAIN data = {"secret_key", "threshold", "party_index", "x_i", "vss_scheme"}
           /\ is_W(data.x_i, c)

\* Keystore::deserialize_key: the first variant of the untagged enum that
\* parses; when none does, the data is parsed as ECDSA_V1V2.
deserialize_key(data) ==
    LET fitting == {k \in 1..Len(KeyshareFormats) : parses_as(KeyshareFormats[k], data)}
        first == CHOOSE k \in fitting : \A j \in fitting : k <= j
    IN  IF fitting # {} THEN Some([format |-> KeyshareFormats[first], ks |-> data])
        ELSE IF parses_as("ECDSA_V1V2", data) THEN Some([format |-> "ECDSA_V1V2", ks |-> data])
        ELSE None

\* TryFrom<KeyshareFormat> for ECDSA_V4.
ECDSA_V4_try_from(kf) ==
    CASE kf.format = "ECDSA_V1V2" ->
           Some([party_index |-> kf.ks.party_id, threshold |-> 2,
                 vss_scheme_vec |-> [k \in 1..Len(kf.ks.vss_scheme_vec) |-> WVerifiableSS_into(kf.ks.vss_scheme_vec[k])],
                 x_i |-> WScalar_into(kf.ks.shared_keys.x_i), y_sum |-> WPoint_into(kf.ks.y_sum),
                 paillier_dk |-> kf.ks.party_keys.dk])
      [] kf.format = "ECDSA_V3" ->
           Some([threshold |-> kf.ks.threshold, y_sum |-> WPoint_into(kf.ks.y_sum),
                 x_i |-> WScalar_into(kf.ks.x_i), party_index |-> kf.ks.party_index,
                 vss_scheme_vec |-> [k \in 1..Len(kf.ks.vss_scheme_vec) |-> WVerifiableSS_into(kf.ks.vss_scheme_vec[k])],
                 paillier_dk |-> kf.ks.paillier_dk])
      [] kf.format = "ECDSA_V4" -> Some(kf.ks)
      [] OTHER -> None

\* TryFrom<KeyshareFormat> for EdDSA_V3.
EdDSA_V3_try_from(kf) ==
    CASE kf.format \in {"EdDSA_V1", "EdDSA_V2", "ECDSA_V1V2", "ECDSA_V3", "ECDSA_V4"} -> None
      [] kf.format = "EdDSA_V3" -> Some(kf.ks)
      [] OTHER ->
           LET converted == <<WVerifiableSS_into(kf.ks.vss_scheme)>>
           IN  Some([party_index |-> kf.ks.party_index, threshold |-> kf.ks.threshold,
                     vss_scheme_vec |-> converted, x_i |-> WScalar_into(kf.ks.x_i),
                     y_sum |-> CurvEnc("Ed25519", calculate_y_sum_from_vss_vec(
                                  [k \in 1..1 |-> [commitments |-> [m \in 1..Len(converted[k].commitments) |-> converted[k].commitments[m].value]]]))])

\* TryFrom<KeyshareFormat> for Sr25519.
Sr25519_try_from(kf) == IF kf.format = "Sr25519" THEN Some(kf.ks) ELSE None

try_from(K, kf) ==
    CASE K = "ECDSA_V4" -> ECDSA_V4_try_from(kf)
      [] K = "EdDSA_V3" -> EdDSA_V3_try_from(kf)
      [] OTHER -> Sr25519_try_from(kf)

\* Keystore::get_key::<K>: the file is deserialised and converted to K.
Keystore_get_key_as(K, data) ==
    IF deserialize_key(data) = None THEN None ELSE try_from(K, unwrap(deserialize_key(data)))

KeyfmtInit ==
    /\ \E k \in 1..Len(KeyshareFormats), i \in 1..KeyParties :
          kf_file = [format |-> KeyshareFormats[k], index |-> i, data |-> keyfile_of(KeyshareFormats[k], i)]
    /\ kf_loaded = None

keyfmt_frame == UNCHANGED <<collect_vars, session_vars, auth_vars, recovery_vars, guard_vars, store_vars, eddsa_vars, phase0_vars, dispatch_vars, eject_vars, replay_vars, join_vars, wait_vars, keyinfo_vars>>

\* KeyshareAccessor::<K>::read_only for the file.
KeyshareAccessor_read_only(K) ==
    /\ kf_file # <<>>
    /\ kf_loaded = None
    /\ kf_loaded' = Some([target |-> K, key |-> Keystore_get_key_as(K, kf_file.data)])
    /\ UNCHANGED kf_file
    /\ keyfmt_frame

KeyfmtNext ==
    \E K \in CurrentKeyshareFormat : KeyshareAccessor_read_only(K)

InitKeyfmt == CollectIdle /\ SessionIdle /\ AuthIdle /\ RecoveryIdle /\ GuardIdle /\ StoreIdle /\ KeygenIdle /\ Phase0Idle /\ DispatchIdle /\ EjectIdle /\ KeyfmtInit /\ ReplayIdle /\ JoinIdle /\ WaitIdle /\ KeyInfoIdle
SpecKeyfmt == InitKeyfmt /\ [][KeyfmtNext]_vars

\* The current format of the key type a format belongs to.
latest_format_of(format) ==
    IF kind_of(format) = "ECDSA" THEN "ECDSA_V4" ELSE IF kind_of(format) = "Sr25519" THEN "Sr25519" ELSE "EdDSA_V3"

\* ------------------------------------------------------------------ claims
\* C32: a file in any of the seven formats, loaded as the current format of
\* its own key type, loads, and the loaded keyshare has the scalar x_i of
\* the file's share index unaltered.
C32_EveryFormatLoads ==
    (is_some(kf_loaded) /\ unwrap(kf_loaded).target = latest_format_of(kf_file.format)) =>
        /\ is_some(unwrap(kf_loaded).key)
        /\ (IF is_Curv(unwrap(unwrap(kf_loaded).key).x_i, curve_of(kf_file.format))
            THEN unwrap(unwrap(kf_loaded).key).x_i.value
            ELSE unwrap(unwrap(kf_loaded).key).x_i.hex) = x_i(kind_of(kf_file.format), kf_file.index)

\* ======================================================================
\* Part 12.  Signing requests for the keys of one e-mail.  The request's
\* timestamp is stored per key_id (keys/<key_id>/timestamp-<key_id>), the
\* access key per e-mail (accounts/<email>/access_key).
\* ======================================================================
\* Requests the client makes in one run.
MaxCreated == 2

KeyIds == {"k1", "k2"}

\* NewSignMessage as the client builds it for (key_id, message) at time t:
\* the signing key sealed to the node, and the HMAC under that key.
client_request(key_id, message, t) ==
    [kind |-> "ecdsa", key_id |-> key_id, message |-> message,
     timestamp |-> Some(t), email |-> Some("e"),
     message_hmac |-> Some(hmac("access_key", t, "e")),
     encrypted_signing_key |-> [recipient |-> "node", plaintext |-> "access_key"],
     is_transfer_tx |-> FALSE]

\* KeyMetadataStore of the e-mail as the handler of a request for key_id
\* sees it: get_key_metadata_file_path ignores key_id for "access".
metadata_of(store, key_id) ==
    [timestamp |-> store.timestamp[key_id], access |-> store.access,
     new_identity_key |-> None, e2e_key |-> store.e2e_key]

ReplayInit ==
    /\ rp_store = [timestamp |-> [k \in KeyIds |-> None], access |-> Some("access_key"), e2e_key |-> None]
    /\ rp_created = {}
    /\ rp_inbox = None
    /\ rp_spawned = {}

replay_frame == UNCHANGED <<collect_vars, session_vars, auth_vars, recovery_vars, guard_vars, store_vars, eddsa_vars, phase0_vars, dispatch_vars, eject_vars, keyfmt_vars, join_vars, wait_vars, keyinfo_vars>>

\* The client signs `message` with key_id: its request reaches the node.
client_signs(key_id, message, t) ==
    /\ rp_store # <<>>
    /\ rp_inbox = None
    /\ Cardinality(rp_created) < MaxCreated
    /\ \A c \in rp_created : c.timestamp < t
    /\ rp_created' = rp_created \cup {[key_id |-> key_id, message |-> message, timestamp |-> t]}
    /\ rp_inbox' = Some(client_request(key_id, message, t))
    /\ UNCHANGED <<rp_store, rp_spawned>>
    /\ replay_frame

\* The untrusted bus delivers a request made of the authentication fields
\* of a request the client made at time t and of another key_id and message.
bus_recombines(t, key_id, message) ==
    /\ rp_inbox = None
    /\ \E c \in rp_created : c.timestamp = t
    /\ rp_inbox' = Some(client_request(key_id, message, t))
    /\ UNCHANGED <<rp_store, rp_created, rp_spawned>>
    /\ replay_frame

\* signing::ecdsa::session::handle_new_session_message for the request.
handle_new_session_message_of_key(spawn_ok) ==
    /\ is_some(rp_inbox)
    /\ LET m == unwrap(rp_inbox)
           verdict == authenticate(m, metadata_of(rp_store, m.key_id))
       IN  /\ rp_store' = [rp_store EXCEPT !.timestamp[m.key_id] = verdict.md.timestamp,
                                           !.e2e_key = verdict.md.e2e_key]
           /\ rp_spawned' = IF verdict.spawn /\ spawn_ok
                            THEN rp_spawned \cup {[key_id |-> m.key_id, message |-> m.message]}
                            ELSE rp_spawned
    /\ rp_inbox' = None
    /\ UNCHANGED rp_created
    /\ replay_frame

\* keygen::ecdsa::session::handle_new_session_message (and the EdDSA one)
\* for a NewKeyGenMessage of a new key of the e-mail, up to the spawn of
\* the keygen workers: the signing key the message carries is saved as the
\* access key, the client's e2e key as e2e_key.
keygen_handle_new_session_message(key_id, encrypted_signing_key) ==
    /\ rp_store # <<>>
    /\ rp_inbox = None
    /\ key_id \notin KeyIds
    /\ rp_store' = IF is_some(e2e_decrypt(encrypted_signing_key))
                   THEN [rp_store EXCEPT !.access = e2e_decrypt(encrypted_signing_key),
                                         !.e2e_key = Some("client")]
                   ELSE rp_store
    /\ UNCHANGED <<rp_created, rp_inbox, rp_spawned>>
    /\ replay_frame

ReplayNext ==
    \/ \E key_id \in KeyIds, message \in Messages, t \in Timestamps : client_signs(key_id, message, t)
    \/ \E key_id \in KeyIds, message \in Messages, t \in Timestamps : bus_recombines(t, key_id, message)
    \/ \E spawn_ok \in BOOLEAN : handle_new_session_message_of_key(spawn_ok)
    \/ \E encrypted_signing_key \in Sealed : keygen_handle_new_session_message("k3", encrypted_signing_key)

InitReplay == CollectIdle /\ SessionIdle /\ AuthIdle /\ RecoveryIdle /\ GuardIdle /\ StoreIdle /\ KeygenIdle /\ Phase0Idle /\ DispatchIdle /\ EjectIdle /\ KeyfmtIdle /\ ReplayInit /\ JoinIdle /\ WaitIdle /\ KeyInfoIdle
SpecReplay == InitReplay /\ [][ReplayNext]_vars

\* ------------------------------------------------------------------ claims
\* C34: every signing worker spawned signs a (key_id, message) of a request
\* the client made.
C34_OnlyCreatedRequestsSpawn ==
    \A w \in rp_spawned : \E c \in rp_created : c.key_id = w.key_id /\ c.message = w.message

\* C36: the access key stored for the e-mail, which authorises signing with
\* the keys the e-mail holds, is the same after the node has handled a
\* keygen session-start message for a new key.
C36_KeygenKeepsAccessKey ==
    [][(rp_store # <<>> /\ rp_inbox = None /\ rp_inbox' = None) => rp_store'.access = rp_store.access]_vars

\* ======================================================================
\* Part 13.  Joining an ECDSA key generation (keygen/ecdsa/session.rs,
\* keygen/ecdsa/orchestrate.rs): the parties ask to join, the orchestrator
\* answers each request with the party's number, then publishes the start.
\* ======================================================================
JoinNodes == 1..SessionParties

JoinInit ==
    /\ kj_orch = [pc |-> "accepting", accepted |-> 0]
    /\ kj_join_sub = <<>>
    /\ kj_party = [n \in JoinNodes |-> [pc |-> "new", party_num |-> None]]
    /\ kj_start = FALSE
    /\ kj_round1 = {}

join_frame == UNCHANGED <<collect_vars, session_vars, auth_vars, recovery_vars, guard_vars, store_vars, eddsa_vars, phase0_vars, dispatch_vars, eject_vars, keyfmt_vars, replay_vars, wait_vars, keyinfo_vars>>

\* keygen_session_join up to request_timeout: the start subject is
\* subscribed, the join request is sent.
keygen_session_join_request(n) ==
    /\ kj_party # <<>>
    /\ kj_party[n].pc = "new"
    /\ kj_party' = [kj_party EXCEPT ![n].pc = "requested"]
    /\ kj_join_sub' = Append(kj_join_sub, n)
    /\ UNCHANGED <<kj_orch, kj_start, kj_round1>>
    /\ join_frame

\* orchestrate, one turn of `for i in 0..party_count`: the next join
\* request is answered with KeyGenParams{num_parties, party_num: i}.
orchestrate_accept ==
    /\ kj_orch # <<>>
    /\ kj_orch.pc = "accepting"
    /\ kj_orch.accepted < SessionParties
    /\ kj_join_sub # <<>>
    /\ kj_join_sub' = Tail(kj_join_sub)
    /\ kj_party' = [kj_party EXCEPT ![Head(kj_join_sub)].party_num = Some(kj_orch.accepted)]
    /\ kj_orch' = [kj_orch EXCEPT !.accepted = @ + 1]
    /\ UNCHANGED <<kj_start, kj_round1>>
    /\ join_frame

\* orchestrate after the loop: nc.publish(...session.<key_id>.start).
orchestrate_publish_start ==
    /\ kj_orch # <<>>
    /\ kj_orch.pc = "accepting"
    /\ kj_orch.accepted = SessionParties
    /\ kj_orch' = [kj_orch EXCEPT !.pc = "collecting_results"]
    /\ kj_start' = TRUE
    /\ UNCHANGED <<kj_join_sub, kj_party, kj_round1>>
    /\ join_frame

\* keygen_session_join after the response: subscribe_to_all_rounds; then
\* keygen_session publishes "ready" and waits for the start message.
subscribe_to_all_rounds(n) ==
    /\ kj_party # <<>>
    /\ kj_party[n].pc = "requested"
    /\ is_some(kj_party[n].party_num)
    /\ kj_party' = [kj_party EXCEPT ![n].pc = "ready"]
    /\ UNCHANGED <<kj_orch, kj_join_sub, kj_start, kj_round1>>
    /\ join_frame

\* request_timeout(20 s) expired before the response: the join fails.
keygen_session_join_timeout(n) ==
    /\ kj_party # <<>>
    /\ kj_party[n].pc = "requested"
    /\ ~is_some(kj_party[n].party_num)
    /\ kj_party' = [kj_party EXCEPT ![n].pc = "failed"]
    /\ UNCHANGED <<kj_orch, kj_join_sub, kj_start, kj_round1>>
    /\ join_frame

\* keygen_session after session_start.next(): KeygenClient::new publishes
\* the party's round 1 message; it reaches the parties subscribed by then.
phase1_round1_publish(n) ==
    /\ kj_party # <<>>
    /\ kj_party[n].pc = "ready"
    /\ kj_start
    /\ kj_party' = [kj_party EXCEPT ![n].pc = "round1"]
    /\ kj_round1' = kj_round1 \cup
          {[sender |-> n, reached |-> {q \in JoinNodes : kj_party[q].pc \in {"ready", "round1"}}]}
    /\ UNCHANGED <<kj_orch, kj_join_sub, kj_start>>
    /\ join_frame

JoinNext ==
    \/ \E n \in JoinNodes : keygen_session_join_request(n)
    \/ orchestrate_accept
    \/ orchestrate_publish_start
    \/ \E n \in JoinNodes : subscribe_to_all_rounds(n)
    \/ \E n \in JoinNodes : keygen_session_join_timeout(n)
    \/ \E n \in JoinNodes : phase1_round1_publish(n)

InitJoin == CollectIdle /\ SessionIdle /\ AuthIdle /\ RecoveryIdle /\ GuardIdle /\ StoreIdle /\ KeygenIdle /\ Phase0Idle /\ DispatchIdle /\ EjectIdle /\ KeyfmtIdle /\ ReplayIdle /\ JoinInit /\ WaitIdle /\ KeyInfoIdle
SpecJoin == InitJoin /\ [][JoinNext]_vars

\* ------------------------------------------------------------------ claims
\* C37: every round 1 message was published when every party the
\* orchestrator accepted had subscribed to the round subjects, so it reached
\* all of them.
C37_Round1AfterAllSubscribed ==
    \A msg \in kj_round1 :
        \A q \in JoinNodes : is_some(kj_party[q].party_num) => q \in msg.reached

\* ======================================================================
\* Part 14.  The blocking waits of the orchestrators (keygen/ecdsa,
\* keygen/eddsa, signing/ecdsa, recovery orchestrate.rs): each takes
\* party_count join messages from join_sub, then party_count results (or
\* recovery packages) from result_sub (package_sub), with
\* Subscription::next(), which returns None only when the subscription or
\* the connection is closed; recovery then sends nc.request to the target.
\* ======================================================================
Orchestrators == {"keygen_ecdsa", "keygen_eddsa", "sign_ecdsa", "recovery"}
\* How far a party goes: it never joins, it joins and never delivers, or
\* it delivers its result or package.
Reaches == {"never", "joins", "delivers"}
WaitParties == 1..SessionParties

\* What the orchestrator does on a None of next(): the keygen orchestrators
\* unwrap it (also recovery on package_sub), the others return the Err
\* of .context(..).
on_none(orchestrator, waiting_for) ==
    IF orchestrator \in {"keygen_ecdsa", "keygen_eddsa"} THEN "panicked"
    ELSE IF orchestrator = "recovery" /\ waiting_for = "results" THEN "panicked"
    ELSE "err"

WaitInit ==
    /\ w_cfg \in [orchestrator : Orchestrators, reach : [WaitParties -> Reaches], target_answers : BOOLEAN]
    /\ w_orch = [pc |-> "joins", taken |-> 0]
    /\ w_party = [p \in WaitParties |-> "new"]
    /\ w_subs = [joins |-> 0, results |-> 0]

wait_frame == UNCHANGED <<collect_vars, session_vars, auth_vars, recovery_vars, guard_vars, store_vars, eddsa_vars, phase0_vars, dispatch_vars, eject_vars, keyfmt_vars, replay_vars, join_vars, keyinfo_vars>>

\* A party handles the session message the orchestrator published to it
\* and sends its join message.
party_joins(p) ==
    /\ w_cfg # <<>>
    /\ w_party[p] = "new"
    /\ w_cfg.reach[p] # "never"
    /\ w_party' = [w_party EXCEPT ![p] = "joined"]
    /\ w_subs' = [w_subs EXCEPT !.joins = @ + 1]
    /\ UNCHANGED <<w_cfg, w_orch>>
    /\ wait_frame

\* A party, after the orchestrator answered the joins, runs the session and
\* publishes its result or its recovery package.
party_delivers(p) ==
    /\ w_cfg # <<>>
    /\ w_party[p] = "joined"
    /\ w_cfg.reach[p] = "delivers"
    /\ w_orch.pc # "joins"
    /\ w_party' = [w_party EXCEPT ![p] = "delivered"]
    /\ w_subs' = [w_subs EXCEPT !.results = @ + 1]
    /\ UNCHANGED <<w_cfg, w_orch>>
    /\ wait_frame

\* orchestrate: join_sub.next() returns a message; after the last one the
\* joins are answered (and the start published).
orchestrate_next_join ==
    /\ w_orch # <<>>
    /\ w_orch.pc = "joins"
    /\ w_subs.joins > 0
    /\ w_subs' = [w_subs EXCEPT !.joins = @ - 1]
    /\ w_orch' = IF w_orch.taken + 1 = SessionParties
                 THEN [pc |-> "results", taken |-> 0]
                 ELSE [w_orch EXCEPT !.taken = @ + 1]
    /\ UNCHANGED <<w_cfg, w_party>>
    /\ wait_frame

\* orchestrate: result_sub.next() (package_sub.next()) returns a message;
\* after the last one the orchestrator returns, or recovery sends its
\* request to the target.
orchestrate_next_result ==
    /\ w_orch # <<>>
    /\ w_orch.pc = "results"
    /\ w_subs.results > 0
    /\ w_subs' = [w_subs EXCEPT !.results = @ - 1]
    /\ w_orch' = IF w_orch.taken + 1 = SessionParties
                 THEN [pc |-> IF w_cfg.orchestrator = "recovery" THEN "request" ELSE "ok",
                       taken |-> 0]
                 ELSE [w_orch EXCEPT !.taken = @ + 1]
    /\ UNCHANGED <<w_cfg, w_party>>
    /\ wait_frame

\* recovery: nc.request(..) returns the target's reply.
orchestrate_reply ==
    /\ w_orch # <<>>
    /\ w_orch.pc = "request"
    /\ w_cfg.target_answers
    /\ w_orch' = [w_orch EXCEPT !.pc = "ok"]
    /\ UNCHANGED <<w_cfg, w_party, w_subs>>
    /\ wait_frame

\* The connection to the bus is closed while the orchestrator waits:
\* next() returns None, nc.request returns Err.
connection_closed ==
    /\ w_orch # <<>>
    /\ w_orch.pc \in {"joins", "results", "request"}
    /\ w_orch' = [w_orch EXCEPT !.pc = IF w_orch.pc = "request" THEN "err"
                                       ELSE on_none(w_cfg.orchestrator, w_orch.pc)]
    /\ UNCHANGED <<w_cfg, w_party, w_subs>>
    /\ wait_frame

orchestrate_step ==
    \/ orchestrate_next_join
    \/ orchestrate_next_result
    \/ orchestrate_reply

WaitNext ==
    \/ \E p \in WaitParties : party_joins(p)
    \/ \E p \in WaitParties : party_delivers(p)
    \/ orchestrate_step
    \/ connection_closed

InitWait == CollectIdle /\ SessionIdle /\ AuthIdle /\ RecoveryIdle /\ GuardIdle /\ StoreIdle /\ KeygenIdle /\ Phase0Idle /\ DispatchIdle /\ EjectIdle /\ KeyfmtIdle /\ ReplayIdle /\ JoinIdle /\ WaitInit /\ KeyInfoIdle
SpecWait == InitWait /\ [][WaitNext]_vars

\* The orchestrator's thread and the parties' threads are scheduled; the
\* bus is not bound to close the connection.
SpecWaitFair ==
    /\ SpecWait
    /\ WF_vars(orchestrate_step)
    /\ \A p \in WaitParties : WF_vars(party_joins(p)) /\ WF_vars(party_delivers(p))

\* A party of the run never joins or never delivers, or the target of a
\* recovery never answers.
SomeoneSilent ==
    \/ \E p \in WaitParties : w_cfg.reach[p] # "delivers"
    \/ w_cfg.orchestrator = "recovery" /\ ~w_cfg.target_answers

\* ------------------------------------------------------------------ claims
\* C39: an orchestrator one of whose parties never joins or never delivers,
\* or whose target never answers, does not wait forever: it eventually
\* ends with an error (a panic of its thread is counted as one here).
C39_SilentPartyEndsOrchestrator ==
    SomeoneSilent => <>(w_orch.pc \in {"err", "panicked"})

\* ======================================================================
\* Part 15.  The key info of a new ECDSA key (keygen/ecdsa/orchestrate.rs
\* 89-112, key_info.rs, storage/fs.rs add_key_info_file): the orchestrator
\* publishes an UpdateKeyInfoCommand to every node of the pool and then
\* saves the key info itself; each node handles the command on a thread of
\* its own.
\* ======================================================================
KeyInfoNodes == 1..SessionParties
\* The nodes with a key info file: the parties, and node 0, on which
\* orchestrate runs when the orchestrating node is no party of the key.
KeyInfoSites == 0..SessionParties

\* FileSystem::add_key_info_file
add_key_info_file(file, content, write_access) ==
    IF write_access = "CreateNewOnly" /\ is_some(file)
    THEN [ok |-> FALSE, file |-> file]
    ELSE [ok |-> TRUE, file |-> Some(content)]

KeyInfoInit ==
    /\ \E own \in KeyInfoSites : ki_orch = [pc |-> "publish", next |-> 1, own |-> own]
    /\ ki_files = [n \in KeyInfoSites |-> None]
    /\ ki_pending = {}

keyinfo_frame == UNCHANGED <<collect_vars, session_vars, auth_vars, recovery_vars, guard_vars, store_vars, eddsa_vars, phase0_vars, dispatch_vars, eject_vars, keyfmt_vars, replay_vars, join_vars, wait_vars>>

\* orchestrate, one turn of `for node in node_pool`: the command is
\* published to the node.
orchestrate_publish_key_info ==
    /\ ki_orch # <<>>
    /\ ki_orch.pc = "publish"
    /\ ki_pending' = ki_pending \cup {ki_orch.next}
    /\ ki_orch' = IF ki_orch.next = SessionParties
                  THEN [ki_orch EXCEPT !.pc = "save"]
                  ELSE [ki_orch EXCEPT !.next = @ + 1]
    /\ UNCHANGED ki_files
    /\ keyinfo_frame

\* orchestrate: KeyInfoStore::save_key_info(.., CreateNewOnly)?, Ok(..).
orchestrate_save_key_info ==
    /\ ki_orch # <<>>
    /\ ki_orch.pc = "save"
    /\ LET saved == add_key_info_file(ki_files[ki_orch.own], "key_info", "CreateNewOnly")
       IN  /\ ki_files' = [ki_files EXCEPT ![ki_orch.own] = saved.file]
           /\ ki_orch' = [ki_orch EXCEPT !.pc = IF saved.ok THEN "ok" ELSE "err"]
    /\ UNCHANGED ki_pending
    /\ keyinfo_frame

\* UpdateKeyInfoCommand::execute_message on node n, on the thread
\* handle_nats_command spawned: save_key_info(.., Modify).
keygen_UpdateKeyInfoCommand_execute_message(n) ==
    /\ n \in ki_pending
    /\ ki_pending' = ki_pending \ {n}
    /\ ki_files' = [ki_files EXCEPT ![n] = add_key_info_file(@, "key_info", "Modify").file]
    /\ UNCHANGED ki_orch
    /\ keyinfo_frame

KeyInfoNext ==
    \/ orchestrate_publish_key_info
    \/ orchestrate_save_key_info
    \/ \E n \in KeyInfoNodes : keygen_UpdateKeyInfoCommand_execute_message(n)

InitKeyInfo == CollectIdle /\ SessionIdle /\ AuthIdle /\ RecoveryIdle /\ GuardIdle /\ StoreIdle /\ KeygenIdle /\ Phase0Idle /\ DispatchIdle /\ EjectIdle /\ KeyfmtIdle /\ ReplayIdle /\ JoinIdle /\ WaitIdle /\ KeyInfoInit
SpecKeyInfo == InitKeyInfo /\ [][KeyInfoNext]_vars

\* ------------------------------------------------------------------ claims
\* C40: after the results of all parties arrived the orchestrator never
\* returns an error from its save of the key info.
C40_OrchestratorSaveSucceeds ==
    ki_orch # <<>> => ki_orch.pc # "err"

====
